---- MODULE Spec2Model ----
(***************************************************************************)
(* Model of the MAVLink network core of skybrush-server:                   *)
(* flockwave/server/ext/mavlink/network.py (class MAVLinkNetwork).         *)
(*                                                                         *)
(* The network runs under cooperative single-threaded scheduling: code     *)
(* between two awaits is atomic.  One action of the model is one such      *)
(* atomic stretch: the body of expect_packet up to its yield, the finally  *)
(* clause of expect_packet, one iteration of the inbound dispatch loop,    *)
(* the set-up of run and the finally clause of run.                        *)
(***************************************************************************)
EXTENDS Integers, Sequences, FiniteSets, TLC

(***************************************************************************)
(* Bounds of the model.                                                    *)
(***************************************************************************)
\* number of Future objects (expect_packet calls that reach line 156)
MaxFutures == 2
\* number of inbound messages the dispatch loop consumes
MaxMessages == 3
\* the number of Sidekick connections the TCP server accepts
MaxClients == 3
\* the number of functions that connect to the signal
MaxReceivers == 3
\* the number of packets the callers hand to the communication manager
MaxSends == 2
\* the number of ticks of the heartbeat emitter
MaxTicks == 4
\* the Namespace objects and the ProtectedSignal objects a behaviour creates
MaxLoads == 3
MaxSignals == 4

(***************************************************************************)
(* Values.  A Python value is a record [t, v]: t is its Python type and v  *)
(* its content as a sequence of characters (the decimal digits of an int). *)
(***************************************************************************)
IntVal(digits) == [t |-> "int", v |-> digits]
StrVal(chars) == [t |-> "str", v |-> chars]
BytesVal(chars) == [t |-> "bytes", v |-> chars]
NoneVal == [t |-> "none", v |-> <<>>]

\* Python's == on two values of the model: never true across types
ValEq(a, b) == a.t = b.t /\ a.v = b.v

\* the byte that makes bytes.decode("utf-8") raise UnicodeDecodeError
BadByte == "\\xff"

\* value.decode("utf-8") of lines 150-154; a ValueError leaves the value alone
DecodeParam(value) ==
    IF value.t = "bytes" /\ (\A i \in 1..Len(value.v) : value.v[i] # BadByte)
    THEN StrVal(value.v)
    ELSE value

\* a dict is the sequence of its (name, value) items, in insertion order
Item(name, value) == [name |-> name, value |-> value]

\* getattr(message, name, None)
GetAttr(fields, name) ==
    IF \E i \in 1..Len(fields) : fields[i].name = name
    THEN fields[CHOOSE i \in 1..Len(fields) : fields[i].name = name].value
    ELSE NoneVal

(***************************************************************************)
(* Text of STATUSTEXT messages, as sequences of characters.                *)
(***************************************************************************)
PreArmPrefix == <<"P", "r", "e", "A", "r", "m", ":", " ">>
TextPreArm == PreArmPrefix \o <<"g", "y", "r", "o">>
TextOther == <<"h", "i">>
TextAlmostPreArm == <<"P", "r", "e", "A", "r", "m", ":", "g", "y", "r", "o">>

\* str.startswith
StartsWith(text, prefix) ==
    Len(text) >= Len(prefix) /\ SubSeq(text, 1, Len(prefix)) = prefix

\* message.text[8:]
TextFrom8(text) == SubSeq(text, Len(PreArmPrefix) + 1, Len(text))

(***************************************************************************)
(* Inbound messages.                                                       *)
(***************************************************************************)
AUTOPILOT1 == "AUTOPILOT1"
\* 0 is the broadcast source
SystemIds == {0, 7, 9}

\* MAV_TYPE values of the HEARTBEAT type field
TypeQuadrotor == IntVal(<<"2">>)
TypeGCS == IntVal(<<"6">>)
\* MAVType(...).is_vehicle
IsVehicle(value) == value.t = "int" /\ value.v \in {<<"1">>, <<"2">>, <<"13">>}

Cmd400 == IntVal(<<"4", "0", "0">>)
Cmd401 == IntVal(<<"4", "0", "1">>)

\* DroneShowStatus.TYPE, the DATA16 type of drone show status packets
DroneShowStatusType == IntVal(<<"9", "1">>)

\* id is the identity of the message object: its arrival number
Message(id, body, src, comp, addr) ==
    [id |-> id, type |-> body.type, fields |-> body.fields,
     src |-> src, comp |-> comp, addr |-> addr]

Body(type, fields) == [type |-> type, fields |-> fields]
BodyAck400 == Body("COMMAND_ACK", <<Item("command", Cmd400)>>)
BodyAck401 == Body("COMMAND_ACK", <<Item("command", Cmd401)>>)
BodyHeartbeat == Body("HEARTBEAT", <<Item("type", TypeQuadrotor)>>)
BodyHeartbeatGCS == Body("HEARTBEAT", <<Item("type", TypeGCS)>>)
BodyPreArm == Body("STATUSTEXT", <<Item("text", StrVal(TextPreArm))>>)
BodyStatus == Body("STATUSTEXT", <<Item("text", StrVal(TextOther))>>)
BodyAttitude == Body("ATTITUDE", <<>>)
SeverityError == IntVal(<<"3">>)
SeverityWarning == IntVal(<<"4">>)
SeverityInfo == IntVal(<<"6">>)
StatusText(text, severity) ==
    Body("STATUSTEXT", <<Item("text", StrVal(text)), Item("severity", severity)>>)
BodyData16Status == Body("DATA16", <<Item("type", DroneShowStatusType)>>)
BodyData16Other == Body("DATA16", <<Item("type", IntVal(<<"9", "2">>))>>)
BodyTimesyncRequest == Body("TIMESYNC", <<Item("tc1", IntVal(<<"0">>))>>)
BodyTimesyncReply == Body("TIMESYNC", <<Item("tc1", IntVal(<<"5">>))>>)
BodyAutopilotVersion == Body("AUTOPILOT_VERSION", <<>>)
ResultAccepted == IntVal(<<"0">>)
ResultFailed == IntVal(<<"4">>)
BodyAckAccepted ==
    Body("COMMAND_ACK", <<Item("command", Cmd400), Item("result", ResultAccepted)>>)
BodyAckFailed ==
    Body("COMMAND_ACK", <<Item("command", Cmd400), Item("result", ResultFailed)>>)
BodyVfrHud == Body("VFR_HUD", <<>>)

\* The traffic of a behaviour: the messages its connections deliver (with
\* id 0: not yet received).  A behaviour has one of these kinds of traffic.
Traffic == {"acks", "vehicles", "texts"}

Inbound(kind) ==
    CASE kind = "acks" ->
            { Message(0, BodyAck400, 7, AUTOPILOT1, "a1"),
              Message(0, BodyAck400, 9, AUTOPILOT1, "a1"),
              Message(0, BodyAck401, 7, AUTOPILOT1, "a1"),
              Message(0, BodyAck400, 7, "CAMERA", "a1") }
      [] kind = "vehicles" ->
            { Message(0, BodyHeartbeat, 7, AUTOPILOT1, "a1"),
              Message(0, BodyHeartbeat, 7, AUTOPILOT1, "a2"),
              Message(0, BodyHeartbeat, 9, AUTOPILOT1, "a1"),
              Message(0, BodyHeartbeat, 0, AUTOPILOT1, "a1"),
              Message(0, BodyHeartbeat, 9, "CAMERA", "a2"),
              Message(0, BodyHeartbeatGCS, 7, AUTOPILOT1, "a2") }
      [] kind = "texts" ->
            { Message(0, BodyPreArm, 7, AUTOPILOT1, "a1"),
              Message(0, BodyPreArm, 0, AUTOPILOT1, "a1"),
              Message(0, BodyStatus, 7, AUTOPILOT1, "a1"),
              Message(0, BodyAttitude, 7, AUTOPILOT1, "a1"),
              Message(0, BodyAttitude, 7, "CAMERA", "a1"),
              Message(0, BodyVfrHud, 9, AUTOPILOT1, "a2"),
              Message(0, BodyAck400, 7, AUTOPILOT1, "a1") }
      [] kind = "fields" ->
            { Message(0, BodyAckAccepted, 7, AUTOPILOT1, "a1"),
              Message(0, BodyAckFailed, 7, AUTOPILOT1, "a1"),
              Message(0, BodyAck400, 9, AUTOPILOT1, "a2"),
              Message(0, BodyStatus, 7, AUTOPILOT1, "a1") }
      [] kind = "frames" ->
            { Message(0, BodyHeartbeat, 0, AUTOPILOT1, "a2"),
              Message(0, BodyData16Status, 0, AUTOPILOT1, "a2"),
              Message(0, BodyAutopilotVersion, 0, AUTOPILOT1, "a2"),
              Message(0, BodyPreArm, 0, AUTOPILOT1, "a2"),
              Message(0, BodyHeartbeatGCS, 7, AUTOPILOT1, "a2"),
              Message(0, BodyData16Other, 7, AUTOPILOT1, "a2"),
              Message(0, BodyStatus, 7, AUTOPILOT1, "a2"),
              Message(0, BodyTimesyncRequest, 7, AUTOPILOT1, "a2"),
              Message(0, BodyTimesyncReply, 9, AUTOPILOT1, "a2"),
              Message(0, BodyAck400, 9, AUTOPILOT1, "a2"),
              Message(0, BodyHeartbeat, 7, AUTOPILOT1, "a1"),
              Message(0, BodyData16Status, 9, AUTOPILOT1, "a1") }
      [] kind = "addresses" ->
            { Message(0, BodyHeartbeat, 7, AUTOPILOT1, "a1"),
              Message(0, BodyHeartbeat, 7, AUTOPILOT1, "a2"),
              Message(0, BodyHeartbeat, 9, AUTOPILOT1, "a1"),
              Message(0, BodyHeartbeatGCS, 7, AUTOPILOT1, "a3"),
              Message(0, BodyHeartbeat, 7, "CAMERA", "a3") }
      [] kind = "prearm" ->
            { Message(0, StatusText(TextPreArm, SeverityWarning), 7, AUTOPILOT1, "a1"),
              Message(0, StatusText(TextPreArm, SeverityError), 9, AUTOPILOT1, "a2"),
              Message(0, StatusText(TextOther, SeverityError), 7, AUTOPILOT1, "a2"),
              Message(0, StatusText(TextOther, SeverityInfo), 9, AUTOPILOT1, "a2"),
              Message(0, StatusText(TextAlmostPreArm, SeverityWarning), 7, AUTOPILOT1, "a2"),
              Message(0, BodyHeartbeat, 7, AUTOPILOT1, "a1") }
      [] kind = "faults" ->
            { Message(0, BodyHeartbeat, 7, AUTOPILOT1, "a1"),
              Message(0, BodyHeartbeat, 9, AUTOPILOT1, "a2"),
              Message(0, StatusText(TextPreArm, SeverityWarning), 9, AUTOPILOT1, "a1") }
      [] kind = "predicates" ->
            { Message(0, BodyAck400, 7, AUTOPILOT1, "a1"),
              Message(0, BodyAck400, 9, AUTOPILOT1, "a2"),
              Message(0, BodyHeartbeat, 7, AUTOPILOT1, "a1") }
      [] kind = "sends" ->
            { Message(0, BodyHeartbeat, 7, AUTOPILOT1, "a1"),
              Message(0, BodyAck400, 7, AUTOPILOT1, "a1"),
              Message(0, BodyAck401, 7, AUTOPILOT1, "a1"),
              Message(0, BodyAck401, 9, AUTOPILOT1, "a2"),
              Message(0, BodyAck400, 7, "CAMERA", "a1") }

NoMessage == [id |-> 0, type |-> "", fields |-> <<>>,
              src |-> 0, comp |-> "", addr |-> ""]

(***************************************************************************)
(* Matchers: the params argument of expect_packet and the entries          *)
(* (system_id, params, future) of the matcher table.  An optional system   *)
(* id is a sequence: <<>> is None, <<s>> is s.                             *)
(***************************************************************************)
ParamsNone == [kind |-> "none", map |-> <<>>, name |-> ""]
ParamsFields(map) == [kind |-> "fields", map |-> map, name |-> ""]
ParamsCallable(name) == [kind |-> "callable", map |-> <<>>, name |-> name]

\* the callables the model's callers pass as params:
\*   command_is_401     lambda m: m.command == 401
\*   progress_is_done   lambda m: m.progress == 100
CallPredicate(name, msg) ==
    CASE name = "command_is_401" -> ValEq(GetAttr(msg.fields, "command"), Cmd401)
      [] name = "progress_is_done" ->
            ValEq(GetAttr(msg.fields, "progress"), IntVal(<<"1", "0", "0">>))
      [] OTHER -> FALSE

\* the callable raises AttributeError: the message has not the attribute it reads
PredicateRaises(name, msg) ==
    /\ name = "progress_is_done"
    /\ \A i \in 1..Len(msg.fields) : msg.fields[i].name # "progress"

Expect(type, system_id, params) ==
    [type |-> type, system_id |-> system_id, params |-> params]
ExpectAck400 ==
    Expect("COMMAND_ACK", <<7>>, ParamsFields(<<Item("command", Cmd400)>>))
ExpectAck401 == Expect("COMMAND_ACK", <<>>, ParamsCallable("command_is_401"))
ExpectHeartbeat == Expect("HEARTBEAT", <<>>, ParamsFields(<<>>))
ExpectAnyAck == Expect("COMMAND_ACK", <<7>>, ParamsNone)
ExpectAccepted ==
    Expect("COMMAND_ACK", <<>>,
           ParamsFields(<<Item("command", Cmd400), Item("result", ResultAccepted)>>))
ExpectProgress == Expect("COMMAND_ACK", <<>>, ParamsCallable("progress_is_done"))
ExpectAckOf7 == Expect("COMMAND_ACK", <<7>>, ParamsFields(<<>>))
ExpectText == Expect("STATUSTEXT", <<>>, ParamsFields(<<Item("text", BytesVal(TextOther))>>))

\* the calls of expect_packet the callers of a behaviour make
ExpectInputs(kind) ==
    CASE kind = "acks" -> {ExpectAck400, ExpectAck401, ExpectAnyAck}
      [] kind = "vehicles" -> {ExpectHeartbeat}
      [] kind = "texts" -> {ExpectAck400}
      [] kind = "fields" -> {ExpectAccepted, ExpectAckOf7, ExpectText}
      [] kind = "frames" -> {ExpectHeartbeat}
      [] kind = "prearm" -> {ExpectHeartbeat}
      [] kind = "faults" -> {ExpectHeartbeat}
      [] kind = "predicates" -> {ExpectProgress, ExpectAck400}

\* the kinds of traffic of all the behaviours of the model
Profiles ==
    Traffic \cup {"addresses", "faults", "fields", "frames", "prearm", "predicates",
                  "sends"}

MessageTypes == UNION {{m.type : m \in Inbound(kind)} : kind \in Profiles}

\* lines 148-154: bytes values of a params dict are decoded in place
DecodeParams(params) ==
    IF params.kind = "callable"
    THEN params
    ELSE [params EXCEPT !.map =
            [i \in 1..Len(params.map) |->
                Item(params.map[i].name, DecodeParam(params.map[i].value))]]

\* line 148-149: a params of None has no items()
ParamsRaise(params) == params.kind = "none"

MatchedAnyField(entry, msg) ==
    IF entry.system_id # <<>> /\ msg.src # entry.system_id[1]
    THEN FALSE
    ELSE IF entry.params.kind = "callable"
    THEN CallPredicate(entry.params.name, msg)
    ELSE IF entry.params.kind = "none"
    THEN TRUE
    ELSE Len(entry.params.map) = 0
         \/ \E i \in 1..Len(entry.params.map) :
                ValEq(GetAttr(msg.fields, entry.params.map[i].name),
                      entry.params.map[i].value)

MatchedAnySystem(entry, msg) ==
    IF entry.params.kind = "callable"
    THEN CallPredicate(entry.params.name, msg)
    ELSE IF entry.params.kind = "none"
    THEN TRUE
    ELSE \A i \in 1..Len(entry.params.map) :
            ValEq(GetAttr(msg.fields, entry.params.map[i].name),
                  entry.params.map[i].value)

\* lines 474-484: does the entry match the message
Matched(entry, msg) ==
    IF entry.system_id # <<>> /\ msg.src # entry.system_id[1]
    THEN FALSE
    ELSE IF entry.params.kind = "callable"
    THEN CallPredicate(entry.params.name, msg)
    ELSE IF entry.params.kind = "none"
    THEN TRUE
    ELSE \A i \in 1..Len(entry.params.map) :
            ValEq(GetAttr(msg.fields, entry.params.map[i].name),
                  entry.params.map[i].value)

(***************************************************************************)
(* Future (flockwave.server.concurrency): a single-shot completion slot.   *)
(* value is the id of the message it was resolved with.                    *)
(***************************************************************************)
NewFuture == [state |-> "pending", value |-> 0]

\* Future.set_result: completes a pending slot; a no-op on a done one
SetResult(fut, value) ==
    IF fut.state = "pending"
    THEN [state |-> "fulfilled", value |-> value]
    ELSE fut

\* Future.cancel: cancels a pending slot; a no-op on a done one
CancelFuture(fut) ==
    IF fut.state = "pending"
    THEN [state |-> "cancelled", value |-> 0]
    ELSE fut

\* an observable effect of one iteration of the dispatch loop
Ev(ev, n, x) == [ev |-> ev, n |-> n, x |-> x]

FulfilOverwriting(futs, f, msg) ==
    [futs EXCEPT ![f] = [state |-> "fulfilled", value |-> msg.id]]

\* lines 485-486: if matched: future.set_result(message)
Fulfil(futs, f, msg) == [futs EXCEPT ![f] = SetResult(@, msg.id)]

\* lines 474-477: a callable params is called with the message unless the
\* system id of the entry rules the message out
PredicateCalls(entry, msg) ==
    IF entry.system_id # <<>> /\ msg.src # entry.system_id[1]
    THEN <<>>
    ELSE IF entry.params.kind = "callable"
    THEN <<Ev("call", entry.future, entry.params.name)>>
    ELSE <<>>

\* line 477: params(message) raises
Raises(entry, msg) ==
    /\ ~(entry.system_id # <<>> /\ msg.src # entry.system_id[1])
    /\ entry.params.kind = "callable"
    /\ PredicateRaises(entry.params.name, msg)

\* lines 473-486: the matcher entries of the message's type, in list order;
\* an exception of a callable leaves the for loop
RECURSIVE ResolveFrom(_, _, _, _, _)
ResolveFrom(list, i, futs, events, msg) ==
    IF i > Len(list)
    THEN [futures |-> futs, events |-> events, raised |-> FALSE]
    ELSE IF Raises(list[i], msg)
    THEN [futures |-> futs, events |-> events \o PredicateCalls(list[i], msg),
          raised |-> TRUE]
    ELSE IF Matched(list[i], msg)
    THEN ResolveFrom(list, i + 1, Fulfil(futs, list[i].future, msg),
            Append(events \o PredicateCalls(list[i], msg),
                Ev(IF futs[list[i].future].state = "pending"
                   THEN "fulfill" ELSE "dup", list[i].future, msg.type)),
            msg)
    ELSE ResolveFrom(list, i + 1, futs, events \o PredicateCalls(list[i], msg), msg)

ResolveMatchers(list, futs, msg) == ResolveFrom(list, 1, futs, <<>>, msg)

\* tuple equality of two matcher entries; futures compare by identity
ItemEq(a, b) ==
    a.system_id = b.system_id /\ a.params = b.params /\ a.future = b.future

\* list.index(item): the position of the first equal item
IndexOf(list, item) ==
    CHOOSE i \in 1..Len(list) :
        ItemEq(list[i], item) /\ \A j \in 1..(i - 1) : ~ItemEq(list[j], item)

RemoveHead(list, item) == Tail(list)

\* line 164: matchers.pop(matchers.index(item))
RemoveItem(list, item) ==
    LET k == IndexOf(list, item)
    IN  SubSeq(list, 1, k - 1) \o SubSeq(list, k + 1, Len(list))

CancellingExit(fut) == CancelFuture(fut)

\* lines 161-164: the finally clause of expect_packet leaves the future alone
ExitFuture(fut) == fut

CancelFirstOfEach(table, futs) ==
    [f \in 1..Len(futs) |->
        IF \E t \in DOMAIN table :
              Len(table[t]) > 0 /\ table[t][1].future = f
        THEN CancelFuture(futs[f])
        ELSE futs[f]]

\* lines 257-259: cancel the future of every entry of every matcher list
CancelAll(table, futs) ==
    [f \in 1..Len(futs) |->
        IF \E t \in DOMAIN table : \E i \in 1..Len(table[t]) :
              table[t][i].future = f
        THEN CancelFuture(futs[f])
        ELSE futs[f]]

(***************************************************************************)
(* UAV directory.  A UAV object is identified by its creation number; the  *)
(* directory d is the record [uavs, objects, addresses, registry]:         *)
(* uavs maps a system id to its UAV (0: no entry), objects holds the UAV   *)
(* objects the driver created, addresses is _uav_addresses, registry the   *)
(* calls of register_uav.                                                  *)
(***************************************************************************)
NetworkId == <<"a", "l", "p", "h", "a">>

\* id_format patterns: a sequence of literal characters and {0}, {1} fields
FormatDefault == <<"{0}">>
FormatDrn == <<"D", "R", "N", "-", "{0}", "-", "{1}">>
\* the id_format of the network of the model
IdFormat == FormatDrn

Digits == <<"0", "1", "2", "3", "4", "5", "6", "7", "8", "9">>

\* str(n) of a non-negative int
RECURSIVE IntToStr(_)
IntToStr(n) ==
    IF n < 10
    THEN <<Digits[n + 1]>>
    ELSE IntToStr(n \div 10) \o <<Digits[(n % 10) + 1]>>

\* pattern.format(system_id, network_id)
RECURSIVE FormatFrom(_, _, _, _)
FormatFrom(pattern, i, system_id, network_id) ==
    IF i > Len(pattern)
    THEN <<>>
    ELSE (CASE pattern[i] = "{0}" -> IntToStr(system_id)
            [] pattern[i] = "{1}" -> network_id
            [] OTHER -> <<pattern[i]>>)
         \o FormatFrom(pattern, i + 1, system_id, network_id)

IdFormatter(pattern, system_id, network_id) ==
    FormatFrom(pattern, 1, system_id, network_id)

EmptyDirectory ==
    [uavs |-> [s \in SystemIds |-> 0], objects |-> <<>>,
     addresses |-> <<>>, registry |-> <<>>, fault |-> ""]

\* lines 380-382: self._uavs[system_id] = uav = self.driver.create_uav(uav_id);
\* the new UAV has no network and no system id yet (<<>> and 0)
StoreUav(d, pattern, system_id) ==
    [d EXCEPT
      !.uavs[system_id] = Len(d.objects) + 1,
      !.objects = Append(@, [drone_id |-> IdFormatter(pattern, system_id, NetworkId),
                             network_id |-> <<>>,
                             system_id |-> 0]),
      !.addresses = Append(@, "")]

\* line 383: uav.assign_to_network_and_system_id(self.id, system_id)
AssignUav(d, system_id) ==
    [d EXCEPT !.objects[d.uavs[system_id]].network_id = NetworkId,
              !.objects[d.uavs[system_id]].system_id = system_id]

\* line 385: self.register_uav(uav)
RegisterUav(d, system_id) == [d EXCEPT !.registry = Append(@, d.uavs[system_id])]

\* an exception leaves _create_uav
CreateRaised(d) == [d EXCEPT !.fault = "raised"]

\* lines 380-387: _create_uav
CreateUav(d, pattern, system_id) ==
    IF d.fault = "assign"
    THEN CreateRaised(StoreUav(d, pattern, system_id))
    ELSE IF d.fault = "register"
    THEN CreateRaised(AssignUav(StoreUav(d, pattern, system_id), system_id))
    ELSE RegisterUav(AssignUav(StoreUav(d, pattern, system_id), system_id), system_id)

\* the result of a handler: the directory, the effects, and whether it raised
Result(d, events, raised) == [d |-> d, events |-> events, raised |-> raised]

KeepFirstAddress(d, uav, created, address) ==
    [d |-> [d EXCEPT !.addresses[uav] = IF @ = "" THEN address ELSE @], uav |-> uav,
     raised |-> FALSE,
     events |-> (IF created THEN <<Ev("create", uav, "")>> ELSE <<>>)
                \o <<Ev("address", uav, address)>>]

\* lines 412-414: remember the address the UAV was last heard from
UpdateAddress(d, uav, created, address) ==
    [d |-> [d EXCEPT !.addresses[uav] = address], uav |-> uav,
     raised |-> FALSE,
     events |-> (IF created THEN <<Ev("create", uav, "")>> ELSE <<>>)
                \o <<Ev("address", uav, address)>>]

\* lines 406-414: the UAV of the directory d for the source of the message
Located(d, created, msg) == UpdateAddress(d, d.uavs[msg.src], created, msg.addr)

FindUavOfAnySystem(d, pattern, msg) ==
    IF d.uavs[msg.src] # 0
    THEN Located(d, FALSE, msg)
    ELSE Located(CreateUav(d, pattern, msg.src), TRUE, msg)

FindUavAlwaysCreating(d, pattern, msg) ==
    IF msg.src = 0
    THEN [d |-> d, uav |-> 0, events |-> <<>>, raised |-> FALSE]
    ELSE Located(CreateUav(d, pattern, msg.src), TRUE, msg)

\* lines 409-414: the UAV _create_uav has returned, or its exception
Created(d, msg) ==
    IF d.fault = "raised"
    THEN [d |-> d, uav |-> 0, events |-> <<>>, raised |-> TRUE]
    ELSE Located(d, TRUE, msg)

\* lines 403-414: _find_uav_from_message; uav 0 is None
FindUav(d, pattern, msg) ==
    IF msg.src = 0
    THEN [d |-> d, uav |-> 0, events |-> <<>>, raised |-> FALSE]
    ELSE IF d.uavs[msg.src] # 0
    THEN Located(d, FALSE, msg)
    ELSE Created(CreateUav(d, pattern, msg.src), msg)

\* lines 506-509: if uav: uav.handle_message_...(message)
Forwarded(r, what) ==
    IF r.raised
    THEN Result(r.d, r.events, TRUE)
    ELSE Result(r.d,
                r.events \o (IF r.uav # 0 THEN <<Ev("forward", r.uav, what)>> ELSE <<>>),
                FALSE)

\* lines 504-509, 519-531, 565-570: find the UAV and forward the message to it
ForwardToUav(d, pattern, msg, what) == Forwarded(FindUav(d, pattern, msg), what)

\* lines 511-517: _handle_message_data16
HandleData16(d, pattern, msg) ==
    IF ValEq(GetAttr(msg.fields, "type"), DroneShowStatusType)
    THEN ForwardToUav(d, pattern, msg, "drone_show_status")
    ELSE Result(d, <<>>, FALSE)

HandleHeartbeatOfAny(d, pattern, msg) == ForwardToUav(d, pattern, msg, "heartbeat")

\* lines 533-544: _handle_message_heartbeat
HandleHeartbeat(d, pattern, msg) ==
    IF ~IsVehicle(GetAttr(msg.fields, "type"))
    THEN Result(d, <<>>, FALSE)
    ELSE ForwardToUav(d, pattern, msg, "heartbeat")

NotifyWithWholeText(r, text) ==
    IF r.uav = 0
    THEN Result(r.d, r.events, TRUE)
    ELSE Result(r.d, Append(r.events, Ev("prearm", r.uav, text)), FALSE)

\* line 557: uav.notify_prearm_failure(message.text[8:]); calling a method of
\* None raises
NotifyPrearmFailure(r, text) ==
    IF r.uav = 0
    THEN Result(r.d, r.events, TRUE)
    ELSE Result(r.d, Append(r.events, Ev("prearm", r.uav, TextFrom8(text))), FALSE)

\* log_level_from_severity: the log level a MAVLink severity is mapped to
LogLevelFromSeverity(severity) == [mapped_from |-> severity]

\* line 555: message.text and message.text.startswith("PreArm: ")
IsPreArm(text) ==
    text.t = "str" /\ Len(text.v) > 0 /\ StartsWith(text.v, PreArmPrefix)

\* lines 549-563: _handle_message_statustext
HandleStatustext(d, pattern, msg) ==
    IF IsPreArm(GetAttr(msg.fields, "text"))
    THEN NotifyPrearmFailure(FindUav(d, pattern, msg), GetAttr(msg.fields, "text").v)
    ELSE Result(d, <<Ev("log", LogLevelFromSeverity(GetAttr(msg.fields, "severity")),
                        "statustext")>>, FALSE)

\* lines 572-581: _handle_message_timesync
HandleTimesync(d, pattern, msg) ==
    IF ~ValEq(GetAttr(msg.fields, "tc1"), IntVal(<<"0">>))
    THEN Result(d, <<Ev("log", [name |-> "INFO"], "roundtrip")>>, FALSE)
    ELSE Result(d, <<>>, FALSE)

\* lines 430-456: the types the handlers dict maps to nop
NopTypes ==
    {"BAD_DATA", "COMMAND_ACK", "FILE_TRANSFER_PROTOCOL", "GPS_GLOBAL_ORIGIN",
     "HOME_POSITION", "HWSTATUS", "LOCAL_POSITION_NED", "MEMINFO", "MISSION_ACK",
     "MISSION_COUNT", "MISSION_CURRENT", "MISSION_ITEM_INT", "MISSION_REQUEST",
     "NAV_CONTROLLER_OUTPUT", "PARAM_VALUE", "POSITION_TARGET_GLOBAL_INT",
     "POWER_STATUS"}

\* lines 430-456: the types the handlers dict maps to a method of the network
MethodTypes ==
    {"AUTOPILOT_VERSION", "DATA16", "GLOBAL_POSITION_INT", "GPS_RAW_INT",
     "HEARTBEAT", "STATUSTEXT", "SYS_STATUS", "TIMESYNC"}

\* line 489: handlers.get(type); nops are the types line 502 added
HasHandler(nops, type) ==
    type \in NopTypes \/ type \in MethodTypes \/ type \in nops

\* line 492: handler(message, connection_id=..., address=...)
CallHandler(d, pattern, msg) ==
    CASE msg.type = "DATA16" -> HandleData16(d, pattern, msg)
      [] msg.type = "HEARTBEAT" -> HandleHeartbeat(d, pattern, msg)
      [] msg.type = "STATUSTEXT" -> HandleStatustext(d, pattern, msg)
      [] msg.type = "TIMESYNC" -> HandleTimesync(d, pattern, msg)
      [] msg.type = "AUTOPILOT_VERSION" ->
            ForwardToUav(d, pattern, msg, "autopilot_version")
      [] msg.type = "GLOBAL_POSITION_INT" ->
            ForwardToUav(d, pattern, msg, "global_position_int")
      [] msg.type = "GPS_RAW_INT" -> ForwardToUav(d, pattern, msg, "gps_raw_int")
      [] msg.type = "SYS_STATUS" -> ForwardToUav(d, pattern, msg, "sys_status")
      [] OTHER -> Result(d, <<>>, FALSE)

(***************************************************************************)
(* One iteration of the inbound dispatch loop (lines 460-502).  Its result *)
(* is a record: futures, d (the directory), nops (the types line 502 has   *)
(* mapped to nop), events (the effects, in the order they happen), log     *)
(* (the lines of log.exception, line 494, and log.warn, line 498) and      *)
(* propagated (an exception leaves the loop body).                         *)
(***************************************************************************)
LogLine(level, x) == [level |-> level, x |-> x]

Uncaught(r, type) ==
    [d |-> r.d, events |-> r.events, log |-> <<>>, propagated |-> r.raised]

\* lines 493-496: except Exception: self.log.exception(...)
Caught(r, type) ==
    IF r.raised
    THEN [d |-> r.d, events |-> Append(r.events, Ev("exception", 0, type)),
          log |-> <<LogLine("exception", type)>>, propagated |-> FALSE]
    ELSE [d |-> r.d, events |-> r.events, log |-> <<>>, propagated |-> FALSE]

UnguardedCall(d, pattern, msg) == Uncaught(CallHandler(d, pattern, msg), msg.type)

\* lines 491-496: the handler call inside try / except Exception
GuardedCall(d, pattern, msg) == Caught(CallHandler(d, pattern, msg), msg.type)

NopNotInstalled(nops, type) == nops

\* line 502: handlers[type] = nop
InstallNop(nops, type) == nops \cup {type}

\* lines 489-492: the handler the dict has for the type was called
Handled(r, nops, type) ==
    [d |-> r.d, nops |-> nops,
     events |-> <<Ev("handler", 0, type)>> \o r.events,
     log |-> r.log, propagated |-> r.propagated]

\* lines 489-502: call the handler of the type, or warn and install a nop
HandleOrWarn(msg, d, pattern, nops) ==
    IF HasHandler(nops, msg.type)
    THEN Handled(GuardedCall(d, pattern, msg), nops, msg.type)
    ELSE [d |-> d, nops |-> InstallNop(nops, msg.type),
          events |-> <<Ev("warn", 0, msg.type)>>,
          log |-> <<LogLine("warning", msg.type)>>, propagated |-> FALSE]

\* the effects of two parts of the loop body, first then second
InOrder(futs, first, second, r2) ==
    [futures |-> futs, d |-> r2.d, nops |-> r2.nops,
     events |-> first \o second, log |-> r2.log, propagated |-> r2.propagated]

HandlerThenMatchers(r1, r2) == InOrder(r1.futures, r2.events, r1.events, r2)

\* lines 472-502: the matcher loop ends before the handler is looked up
MatchersThenHandler(r1, r2) == InOrder(r1.futures, r1.events, r2.events, r2)

HandlerBeforeMatchers(msg, list, futs, d, pattern, nops) ==
    HandlerThenMatchers(ResolveMatchers(list, futs, msg),
                        HandleOrWarn(msg, d, pattern, nops))

\* lines 473-502: the for loop of the matchers is in no try statement: its
\* exception leaves the loop body before the handler is looked up
AfterMatchers(r1, msg, d, pattern, nops) ==
    IF r1.raised
    THEN [futures |-> r1.futures, d |-> d, nops |-> nops, events |-> r1.events,
          log |-> <<>>, propagated |-> TRUE]
    ELSE MatchersThenHandler(r1, HandleOrWarn(msg, d, pattern, nops))

\* lines 470-502: resolve the matchers of the type, then call its handler
DispatchAutopilot(msg, list, futs, d, pattern, nops) ==
    AfterMatchers(ResolveMatchers(list, futs, msg), msg, d, pattern, nops)

AnyComponent(msg) == TRUE

\* line 461: only messages of the autopilot component are handled
FromAutopilot(msg) == msg.comp = AUTOPILOT1

\* lines 460-502: the body of the loop for one message
ProcessMessage(msg, list, futs, d, pattern, nops) ==
    IF ~FromAutopilot(msg)
    THEN [futures |-> futs, d |-> d, nops |-> nops,
          events |-> <<Ev("filtered", 0, msg.type)>>, log |-> <<>>,
          propagated |-> FALSE]
    ELSE DispatchAutopilot(msg, list, futs, d, pattern, nops)

(***************************************************************************)
(* State.                                                                  *)
(***************************************************************************)
VARIABLES
    traffic,        \* the kind of traffic of the behaviour
    running,        \* run is between its set-up and its finally clause
    loop,           \* _handle_inbound_messages: "idle", "consuming", "crashed"
    matchers,       \* the matchers dict of the latest run: type -> entries
    futures,        \* the Future objects created by expect_packet
    scopes,         \* per future: its expect_packet scope
    uavs,           \* _uavs: system id -> UAV (0: no entry)
    uav_objects,    \* the UAV objects created by the driver
    uav_addresses,  \* _uav_addresses: UAV -> address ("": no entry)
    registry,       \* the UAVs register_uav was called with
    nops,           \* the types the loop has added to its handlers dict
    log,            \* the lines the dispatch loop of this run has logged
    received,       \* the number of messages the loop has consumed
    last_message,   \* the message of the loop iteration that has just run
    trace,          \* the effects of that iteration, in order
    raised,         \* the exception the call that has just run raised
    channels,       \* sidekick: the module's list of send channels
    clients,        \* sidekick: per connection, its task and memory channel
    acceptor,       \* sidekick: the TCP server, "serving" or "crashed"
    sk_step,        \* sidekick: what the step that has just run did
    receivers,      \* signals: the receivers connected to the signal
    sig_step,       \* signals: what the call of send that has just run did
    call,           \* the call of send_packet or send_heartbeat in progress
    outbox,         \* the packets handed to the communication manager
    heartbeats,     \* the broadcasts the heartbeat task has attempted
    spec_system_id, \* the system_id the network was built with (0: not given)
    server_system_id,   \* _system_id
    signals,        \* signals.py: the module global signals (ns 0: None)
    namespaces,     \* signals.py: the number of Namespace objects created
    signal_objects, \* signals.py: the ProtectedSignal objects created
    reg_step        \* signals.py: what the call of get_signal, load or unload did

matcherVars == <<matchers, futures, scopes>>
uavVars == <<uavs, uav_objects, uav_addresses, registry>>
runVars == <<traffic, running, loop>>
loopVars == <<nops, log, received>>
stepVars == <<last_message, trace, raised>>
netVars == <<matcherVars, uavVars, runVars, loopVars, stepVars>>
sidekickVars == <<channels, clients, acceptor, sk_step>>
signalVars == <<receivers, sig_step>>
sendVars == <<call, outbox>>
heartbeatVars == <<heartbeats>>
configVars == <<spec_system_id, server_system_id>>
registryVars == <<signals, namespaces, signal_objects, reg_step>>
\* the state that the dispatch loop, expect_packet and the set-up and
\* shutdown of run leave alone
farVars ==
    <<sidekickVars, signalVars, sendVars, heartbeatVars, configVars, registryVars>>
notSidekick ==
    <<netVars, signalVars, sendVars, heartbeatVars, configVars, registryVars>>
notSignal ==
    <<netVars, sidekickVars, sendVars, heartbeatVars, configVars, registryVars>>
notRegistry ==
    <<netVars, sidekickVars, signalVars, sendVars, heartbeatVars, configVars>>

vars == <<netVars, farVars>>

Directory ==
    [uavs |-> uavs, objects |-> uav_objects,
     addresses |-> uav_addresses, registry |-> registry, fault |-> ""]

\* the directory when the calls of the driver and of the registry that set
\* up the next UAV will fail as fault says: "" (no failure), "assign"
\* (assign_to_network_and_system_id raises) or "register" (register_uav raises)
DirectoryWith(fault) == [Directory EXCEPT !.fault = fault]

\* defaultdict(list)
EmptyTable == [t \in MessageTypes |-> <<>>]

\* a connection the server has not accepted yet
NoClient == [pc |-> "none", queue |-> <<>>, error |-> ""]
NoSidekickStep ==
    [op |-> "", client |-> 0, log |-> <<>>, raised |-> "", num_dropped |-> 0]

\* signals: the functions that may be connected to the signal
Receivers == 1..MaxReceivers
NotConnected == [connected |-> FALSE, sender |-> "", raises |-> FALSE]
NoSend == [op |-> "", args |-> <<>>, calls |-> <<>>, result |-> <<>>,
           raised |-> "", log |-> 0]

\* no call of send_packet or send_heartbeat has been made
NoCall == [pc |-> "idle", op |-> "", mode |-> "", target |-> 0, wanted |-> 0,
           slots |-> <<>>, trace |-> <<>>, result |-> 0, error |-> ""]

\* signals.py: the names the callers of get_signal pass
SignalNames == {"rtk", "show", "status"}

\* signals.py line 14: signals = None; line 87: a Namespace is an empty dict
NoNamespace == [ns |-> 0, map |-> [name \in SignalNames |-> 0]]
NoRegistryStep == [op |-> "", name |-> "", result |-> 0, raised |-> ""]

\* line 81: system_id: int = 255
DefaultSystemId == 255

\* the system_id argument of __init__: the one given, else the default
SystemIdArgument(given) == IF given = 0 THEN DefaultSystemId ELSE given

\* line 104: self._system_id = 255
InitSystemId(system_id) == 255

\* lines 65-66 and 104: the network built with the system id given (0: none)
BuiltWith(given) ==
    /\ spec_system_id = given
    /\ server_system_id = InitSystemId(SystemIdArgument(given))

\* lines 100-110: __init__; sidekick.py lines 36-40: the module globals
Built ==
    /\ running = FALSE
    /\ loop = "idle"
    /\ matchers = EmptyTable
    /\ futures = <<>>
    /\ scopes = <<>>
    /\ uavs = EmptyDirectory.uavs
    /\ uav_objects = <<>>
    /\ uav_addresses = <<>>
    /\ registry = <<>>
    /\ nops = {}
    /\ log = <<>>
    /\ received = 0
    /\ last_message = NoMessage
    /\ trace = <<>>
    /\ raised = ""
    /\ channels = <<>>
    /\ clients = [c \in 1..MaxClients |-> NoClient]
    /\ acceptor = "serving"
    /\ sk_step = NoSidekickStep
    /\ receivers = [r \in Receivers |-> NotConnected]
    /\ sig_step = NoSend
    /\ call = NoCall
    /\ outbox = <<>>
    /\ heartbeats = <<>>
    /\ signals = NoNamespace
    /\ namespaces = 0
    /\ signal_objects = <<>>
    /\ reg_step = NoRegistryStep

\* a network built without a system id
Constructed == Built /\ BuiltWith(0)

Init == traffic \in Traffic /\ Constructed

NoStep ==
    /\ last_message' = NoMessage
    /\ trace' = <<>>
    /\ raised' = ""

RunStartKeepingTable ==
    /\ ~running
    /\ running' = TRUE
    /\ loop' = "consuming"
    /\ scopes' = [f \in 1..Len(scopes) |-> [scopes[f] EXCEPT !.orphan = TRUE]]
    /\ nops' = {}
    /\ log' = <<>>
    /\ NoStep
    /\ UNCHANGED <<traffic, matchers, futures, uavVars, received, farVars>>

\* lines 231-255: run up to the start of the communication manager, whose
\* consumer task creates the handlers dict (lines 430-456)
RunStart ==
    /\ ~running
    /\ running' = TRUE
    /\ loop' = "consuming"
    /\ matchers' = EmptyTable
    /\ scopes' = [f \in 1..Len(scopes) |-> [scopes[f] EXCEPT !.orphan = TRUE]]
    /\ nops' = {}
    /\ log' = <<>>
    /\ NoStep
    /\ UNCHANGED <<traffic, futures, uavVars, received, farVars>>

\* lines 256-259: the finally clause of run, on cancellation or on an error
\* of the communication manager; the lists stay with the open scopes
RunExit ==
    /\ running
    /\ running' = FALSE
    /\ loop' = "idle"
    /\ futures' = CancelAll(matchers, futures)
    /\ NoStep
    /\ UNCHANGED <<traffic, matchers, scopes, uavVars, loopVars, farVars>>

\* lines 144-162: expect_packet up to its yield
ExpectPacket(input) ==
    /\ Len(futures) < MaxFutures
    /\ last_message' = NoMessage
    /\ trace' = <<>>
    /\ IF ParamsRaise(input.params)
       THEN /\ raised' = "AttributeError"
            /\ UNCHANGED matcherVars
       ELSE IF ~running
       THEN /\ raised' = "TypeError"
            /\ UNCHANGED matcherVars
       ELSE LET f == Len(futures) + 1
                item == [system_id |-> input.system_id,
                         params |-> DecodeParams(input.params),
                         future |-> f]
            IN  /\ raised' = ""
                /\ futures' = Append(futures, NewFuture)
                /\ scopes' = Append(scopes,
                      [status |-> "open", orphan |-> FALSE,
                       type |-> input.type, item |-> item])
                /\ matchers' = [matchers EXCEPT ![input.type] = Append(@, item)]
    /\ UNCHANGED <<uavVars, runVars, loopVars, farVars>>

\* lines 163-164: the finally clause of expect_packet.  The list of an
\* orphan scope (one entered in an earlier run) belongs to that run's dict,
\* which only such scopes still hold: the dict of this run is not touched.
ScopeExit(f) ==
    /\ f \in 1..Len(scopes)
    /\ scopes[f].status = "open"
    /\ scopes' = [scopes EXCEPT ![f].status = "exited"]
    /\ futures' = [futures EXCEPT ![f] = ExitFuture(@)]
    /\ matchers' =
          IF scopes[f].orphan
          THEN matchers
          ELSE [matchers EXCEPT ![scopes[f].type] = RemoveItem(@, scopes[f].item)]
    /\ NoStep
    /\ UNCHANGED <<uavVars, runVars, loopVars, farVars>>

\* the state after the loop body has run with the result r
Commit(r) ==
    /\ trace' = r.events
    /\ futures' = r.futures
    /\ uavs' = r.d.uavs
    /\ uav_objects' = r.d.objects
    /\ uav_addresses' = r.d.addresses
    /\ registry' = r.d.registry
    /\ nops' = r.nops
    /\ log' = log \o r.log
    /\ loop' = IF r.propagated THEN "crashed" ELSE "consuming"

\* line 460: the loop takes the message msg from the channel
Receive(msg, fault) ==
    /\ last_message' = msg
    /\ Commit(ProcessMessage(msg, matchers[msg.type], futures, DirectoryWith(fault),
                             IdFormat, nops))

\* what the driver and the registry do when the loop sets up a UAV
DriverFaults(kind) == IF kind = "faults" THEN {"", "assign", "register"} ELSE {""}

\* lines 460-502: one iteration of the loop of _handle_inbound_messages
Dispatch(inbound) ==
    /\ running
    /\ loop = "consuming"
    /\ received < MaxMessages
    /\ received' = received + 1
    /\ \E fault \in DriverFaults(traffic) :
            Receive([inbound EXCEPT !.id = received + 1], fault)
    /\ raised' = ""
    /\ UNCHANGED <<traffic, running, matchers, scopes, farVars>>

Next ==
    \/ RunStart
    \/ RunExit
    \/ \E input \in ExpectInputs(traffic) : ExpectPacket(input)
    \/ \E f \in 1..MaxFutures : ScopeExit(f)
    \/ \E inbound \in Inbound(traffic) : Dispatch(inbound)

Spec == Init /\ [][Next]_vars

\* the behaviours that exercise the handlers of the message types
HandlersTraffic == {"frames", "prearm"}
HandlersInit == traffic \in HandlersTraffic /\ Constructed
HandlersSpec == HandlersInit /\ [][Next]_vars

\* the behaviours in which the set-up of a UAV can fail
FaultsInit == traffic = "faults" /\ Constructed
FaultsSpec == FaultsInit /\ [][Next]_vars

\* the behaviours in which a caller supplies a predicate that raises
PredicatesInit == traffic = "predicates" /\ Constructed
PredicatesSpec == PredicatesInit /\ [][Next]_vars

\* the behaviours that exercise the predicates of the matcher entries
MatchingTraffic == {"fields"}
MatchingInit == traffic \in MatchingTraffic /\ Constructed
MatchingSpec == MatchingInit /\ [][Next]_vars

TypeOK ==
    /\ running \in BOOLEAN
    /\ traffic \in Traffic
    /\ loop \in {"idle", "consuming", "crashed"}
    /\ Len(futures) <= MaxFutures
    /\ Len(scopes) = Len(futures)
    /\ \A f \in 1..Len(futures) :
          futures[f].state \in {"pending", "fulfilled", "cancelled"}
    /\ Len(uav_addresses) = Len(uav_objects)
    /\ received \in 0..MaxMessages

(***************************************************************************)
(* Sidekick (sidekick.py): the TCP server of RTK correction packets.  A    *)
(* connection c is served by one task; clients[c] is its state:            *)
(*   pc     "none", "receiving" (blocked in the async for of line 83),     *)
(*          "sending" (in stream.send_all, line 84), "closing" (the exit   *)
(*          of async with rx_channel, line 82, has closed the receive      *)
(*          channel and is at the checkpoint of aclose) or "done";         *)
(*   queue  the buffer of its memory channel;                              *)
(*   error  the exception that is leaving handle_connection.               *)
(* The send channel of connection c is c in the list channels.             *)
(***************************************************************************)
\* line 78: open_memory_channel(16)
BufferSize == 16

\* the data of line 147, the encoded command of the batch
Payload == "rtk"

\* the exceptions stream.send_all raises: the client has closed the
\* connection, or anything else
SendErrors == {"BrokenResourceError", "OSError"}

SidekickLine(level, x) == [level |-> level, x |-> x]

\* line 154: channel.send_nowait(data).  A receiver blocked in receive takes
\* the value at once; otherwise the value is buffered if the buffer has
\* room; a channel whose receive channel is closed raises.
SendNowait(client, data) ==
    CASE client.pc = "receiving" ->
            [client |-> [client EXCEPT !.pc = "sending"], raised |-> ""]
      [] client.pc = "sending" /\ Len(client.queue) < BufferSize ->
            [client |-> [client EXCEPT !.queue = Append(@, data)], raised |-> ""]
      [] client.pc = "sending" ->
            [client |-> client, raised |-> "WouldBlock"]
      [] OTHER ->
            [client |-> client, raised |-> "BrokenResourceError"]

\* lines 153-157: one turn of the loop with the outcome r of send_nowait
AfterSend(r, c, cls, num_dropped) ==
    [clients |-> [cls EXCEPT ![c] = r.client],
     num_dropped |-> IF r.raised = "WouldBlock" THEN num_dropped + 1 ELSE num_dropped,
     raised |-> IF r.raised = "WouldBlock" THEN "" ELSE r.raised]

\* lines 151-157: the loop over the channels, from position i on
RECURSIVE SendToAll(_, _, _, _)
RECURSIVE SendNext(_, _, _)
SendToAll(chs, i, cls, num_dropped) ==
    IF i > Len(chs)
    THEN [clients |-> cls, num_dropped |-> num_dropped, raised |-> ""]
    ELSE SendNext(chs, i, AfterSend(SendNowait(cls[chs[i]], Payload), chs[i],
                                    cls, num_dropped))

\* an exception other than WouldBlock leaves the loop and the handler
SendNext(chs, i, r) ==
    IF r.raised # ""
    THEN r
    ELSE SendToAll(chs, i + 1, r.clients, r.num_dropped)

\* lines 159-160: one warning if anything was dropped
WarnOnce(r) ==
    IF r.raised = "" /\ r.num_dropped > 0
    THEN <<SidekickLine("warning", "backpressure")>>
    ELSE <<>>

\* lines 136-160: handle_mavlink_rtk_packet_fragments
HandleFragments(chs, cls) ==
    IF chs = <<>>
    THEN [clients |-> cls, num_dropped |-> 0, raised |-> ""]
    ELSE SendToAll(chs, 1, cls, 0)

\* the state after the handler has run with the result r
FragmentsDone(r) ==
    /\ clients' = r.clients
    /\ sk_step' = [op |-> "fragments", client |-> 0, log |-> WarnOnce(r),
                   raised |-> r.raised, num_dropped |-> r.num_dropped]

\* the signal mavlink:rtk_fragments is sent: the handler runs to its end
HandleMavlinkRtkPacketFragments ==
    /\ FragmentsDone(HandleFragments(channels, clients))
    /\ UNCHANGED <<channels, acceptor, notSidekick>>

PropagatesErrors(error) ==
    [propagated |-> error # "BrokenResourceError", log |-> <<SidekickLine("info", "closed")>>]

\* lines 109-119: the except and finally clauses of handle_connection_safely
ContainError(error) ==
    IF error = "BrokenResourceError"
    THEN [propagated |-> FALSE, log |-> <<SidekickLine("info", "closed")>>]
    ELSE [propagated |-> FALSE, log |-> <<SidekickLine("exception", error)>>]

\* serve_tcp_and_log_errors: an exception of a handler ends the server
AcceptorAfter(propagated) == IF propagated THEN "crashed" ELSE "serving"

\* line 87: channels.remove(tx_channel)
RemoveChannel(chs, c) == SelectSeq(chs, LAMBDA x : x # c)

\* the next connection: connections are numbered in the order of accept
NextClient == Len(SelectSeq([c \in 1..MaxClients |-> clients[c].pc],
                            LAMBDA pc : pc # "none")) + 1

\* lines 103-108 and 78-83: a connection is accepted, its channel is
\* appended to the list and its task blocks in the async for
Accept ==
    /\ acceptor = "serving"
    /\ NextClient <= MaxClients
    /\ channels' = Append(channels, NextClient)
    /\ clients' = [clients EXCEPT ![NextClient].pc = "receiving"]
    /\ sk_step' = [op |-> "accept", client |-> NextClient,
                   log |-> <<SidekickLine("info", "accepted")>>, raised |-> "",
                   num_dropped |-> 0]
    /\ UNCHANGED <<acceptor, notSidekick>>

\* the state after handle_connection_safely has ended as r says
Ended(c, r) ==
    /\ acceptor' = AcceptorAfter(r.propagated)
    /\ sk_step' = [op |-> "ended", client |-> c, log |-> r.log,
                   raised |-> IF r.propagated THEN clients[c].error ELSE "",
                   num_dropped |-> 0]

\* lines 103-107: format_socket_address or log.info raises before
\* handle_connection is called
AcceptFails ==
    /\ acceptor = "serving"
    /\ NextClient <= MaxClients
    /\ clients' = [clients EXCEPT ![NextClient] =
                      [pc |-> "done", queue |-> <<>>, error |-> "OSError"]]
    /\ acceptor' = AcceptorAfter(ContainError("OSError").propagated)
    /\ sk_step' = [op |-> "ended", client |-> NextClient,
                   log |-> ContainError("OSError").log, raised |-> "",
                   num_dropped |-> 0]
    /\ UNCHANGED <<channels, notSidekick>>

\* line 84 then line 83: stream.send_all returns and the task takes the next
\* payload of the buffer, or blocks
SendAllDone(c) ==
    /\ clients[c].pc = "sending"
    /\ clients' = [clients EXCEPT ![c] =
          IF Len(@.queue) > 0
          THEN [@ EXCEPT !.queue = Tail(@)]
          ELSE [@ EXCEPT !.pc = "receiving"]]
    /\ sk_step' = [op |-> "sent", client |-> c, log |-> <<>>, raised |-> "",
                   num_dropped |-> 0]
    /\ UNCHANGED <<channels, acceptor, notSidekick>>

\* line 84 then line 82: stream.send_all raises; the exit of the async with
\* closes the receive channel, which drops its buffer, and yields
SendAllFails(c, error) ==
    /\ clients[c].pc = "sending"
    /\ clients' = [clients EXCEPT ![c] =
                      [pc |-> "closing", queue |-> <<>>, error |-> error]]
    /\ sk_step' = [op |-> "failed", client |-> c, log |-> <<>>, raised |-> "",
                   num_dropped |-> 0]
    /\ UNCHANGED <<channels, acceptor, notSidekick>>

\* lines 86-87 and 109-119: the task resumes, removes its channel from the
\* list, and handle_connection_safely deals with the exception
ConnectionClosed(c) ==
    /\ clients[c].pc = "closing"
    /\ channels' = RemoveChannel(channels, c)
    /\ clients' = [clients EXCEPT ![c].pc = "done"]
    /\ Ended(c, ContainError(clients[c].error))
    /\ UNCHANGED notSidekick

SidekickNext ==
    \/ Accept
    \/ AcceptFails
    \/ HandleMavlinkRtkPacketFragments
    \/ \E c \in 1..MaxClients : SendAllDone(c)
    \/ \E c \in 1..MaxClients : \E error \in SendErrors : SendAllFails(c, error)
    \/ \E c \in 1..MaxClients : ConnectionClosed(c)

SidekickInit == traffic = "none" /\ Constructed

SidekickSpec == SidekickInit /\ [][SidekickNext]_vars

(***************************************************************************)
(* Signals (signals.py): one ProtectedSignal of the namespace.  A receiver *)
(* r is a function connected for one sender or for ANY sender; it returns  *)
(* a value or raises an Exception when called.                             *)
(***************************************************************************)
ANY == "ANY"
Senders == {"s1", "s2"}

\* the positional arguments of the calls of send
SendArgs == {<<>>, <<"s1">>, <<"s2">>, <<"s1", "s2">>}

\* lines 24-31: no positional argument is the sender None
SenderOf(args) == IF Len(args) = 0 THEN "None" ELSE args[1]

\* line 37: the receivers connected for the sender or for ANY
ReceiversFor(rcvs, sender) ==
    {r \in Receivers : rcvs[r].connected /\ rcvs[r].sender \in {ANY, sender}}

\* the orders in which receivers_for may yield the receivers of set S
Orders(S) ==
    {order \in [1..Cardinality(S) -> S] :
        \A i \in 1..Cardinality(S) : \A j \in 1..Cardinality(S) :
            i # j => order[i] # order[j]}

Returned(r) == [kind |-> "value", of |-> r]
Raised(r) == [kind |-> "exception", of |-> r]

CallUnprotected(r, rcv) ==
    IF rcv.raises
    THEN [retval |-> Raised(r), log |-> 0, raised |-> "Exception"]
    ELSE [retval |-> Returned(r), log |-> 0, raised |-> ""]

\* lines 38-42: the call of one receiver, inside try / except Exception
CallProtected(r, rcv) ==
    IF rcv.raises
    THEN [retval |-> Raised(r), log |-> 1, raised |-> ""]
    ELSE [retval |-> Returned(r), log |-> 0, raised |-> ""]

\* line 43: result.append((receiver, retval))
Collect(acc, r, c) ==
    [calls |-> Append(acc.calls, r),
     result |-> IF c.raised = "" THEN Append(acc.result, <<r, c.retval>>)
                ELSE acc.result,
     log |-> acc.log + c.log, raised |-> c.raised]

\* lines 37-43: the loop over the receivers, from position i of the order on
RECURSIVE SendTo(_, _, _, _)
SendTo(order, i, rcvs, acc) ==
    IF i > Len(order) \/ acc.raised # ""
    THEN acc
    ELSE SendTo(order, i + 1, rcvs,
                Collect(acc, order[i], CallProtected(order[i], rcvs[order[i]])))

NothingSent == [calls |-> <<>>, result |-> <<>>, log |-> 0, raised |-> ""]

\* the state after send has ended as acc says
Sent(args, acc) ==
    /\ sig_step' = [op |-> "send", args |-> args, calls |-> acc.calls,
                    result |-> acc.result, raised |-> acc.raised, log |-> acc.log]
    /\ UNCHANGED <<receivers, notSignal>>

\* lines 23-45: ProtectedSignal.send
Send(args) ==
    IF Len(args) > 1
    THEN Sent(args, [NothingSent EXCEPT !.raised = "TypeError"])
    ELSE IF \A r \in Receivers : ~receivers[r].connected
    THEN Sent(args, NothingSent)
    ELSE \E order \in Orders(ReceiversFor(receivers, SenderOf(args))) :
            Sent(args, SendTo(order, 1, receivers, NothingSent))

\* signal.connect(receiver, sender): sidekick.py line 177 connects a handler
Connect(r, sender, raises) ==
    /\ ~receivers[r].connected
    /\ receivers' = [receivers EXCEPT ![r] =
                        [connected |-> TRUE, sender |-> sender, raises |-> raises]]
    /\ sig_step' = [NoSend EXCEPT !.op = "connect"]
    /\ UNCHANGED notSignal

\* signal.disconnect(receiver): the exit of the context of signals.use
Disconnect(r) ==
    /\ receivers[r].connected
    /\ receivers' = [receivers EXCEPT ![r] = NotConnected]
    /\ sig_step' = [NoSend EXCEPT !.op = "disconnect"]
    /\ UNCHANGED notSignal

SignalNext ==
    \/ \E r \in Receivers : \E sender \in Senders \cup {ANY} :
          \E raises \in BOOLEAN : Connect(r, sender, raises)
    \/ \E r \in Receivers : Disconnect(r)
    \/ \E args \in SendArgs : Send(args)

SignalInit == traffic = "none" /\ Constructed

SignalSpec == SignalInit /\ [][SignalNext]_vars

(***************************************************************************)
(* The registry of signals (signals.py lines 48-92).  signals is the       *)
(* module global: ns is the identity of its Namespace object (0: None) and *)
(* map gives the signal object of a name (0: no key).  A signal object is  *)
(* its index in signal_objects, which records its name and the namespace   *)
(* it was created in.                                                      *)
(***************************************************************************)
\* signals.py line 59: ProtectedSignal(name, doc)
ProtectedSignal(name, ns) == [name |-> name, ns |-> ns]

\* the result of Namespace.signal: the namespace, the objects and the signal
Looked(space, objects, signal) ==
    [signals |-> space, objects |-> objects, result |-> signal]

SignalAlwaysNew(space, objects, name) ==
    Looked([space EXCEPT !.map[name] = Len(objects) + 1],
           Append(objects, ProtectedSignal(name, space.ns)),
           Len(objects) + 1)

\* signals.py lines 56-59: Namespace.signal
NamespaceSignal(space, objects, name) ==
    IF space.map[name] # 0
    THEN Looked(space, objects, space.map[name])
    ELSE Looked([space EXCEPT !.map[name] = Len(objects) + 1],
                Append(objects, ProtectedSignal(name, space.ns)),
                Len(objects) + 1)

\* the state after get_signal has returned what Namespace.signal gave
Got(r, name) ==
    /\ signals' = r.signals
    /\ signal_objects' = r.objects
    /\ reg_step' = [op |-> "get", name |-> name, result |-> r.result, raised |-> ""]

\* signals.py lines 72-79: get_signal
GetSignal(name) ==
    /\ signals.ns = 0 \/ signals.map[name] # 0 \/ Len(signal_objects) < MaxSignals
    /\ IF signals.ns = 0
       THEN /\ reg_step' = [op |-> "get", name |-> name, result |-> 0,
                            raised |-> "RuntimeError"]
            /\ UNCHANGED <<signals, signal_objects>>
       ELSE Got(NamespaceSignal(signals, signal_objects, name), name)
    /\ UNCHANGED <<namespaces, notRegistry>>

\* signals.py lines 83-87: load
Load ==
    /\ namespaces < MaxLoads
    /\ namespaces' = namespaces + 1
    /\ signals' = [NoNamespace EXCEPT !.ns = namespaces + 1]
    /\ reg_step' = [NoRegistryStep EXCEPT !.op = "load"]
    /\ UNCHANGED <<signal_objects, notRegistry>>

\* signals.py lines 91-92: unload
Unload ==
    /\ signals' = NoNamespace
    /\ reg_step' = [NoRegistryStep EXCEPT !.op = "unload"]
    /\ UNCHANGED <<namespaces, signal_objects, notRegistry>>

RegistryNext ==
    \/ Load
    \/ Unload
    \/ \E name \in SignalNames : GetSignal(name)

RegistryInit == traffic = "none" /\ Constructed

RegistrySpec == RegistryInit /\ [][RegistryNext]_vars

(***************************************************************************)
(* Targeted sends (send_packet, send_heartbeat).  One call at a time is    *)
(* followed through its suspension points; call is its state:              *)
(*   pc      "idle", "sending" (in manager.send_packet), "waiting" (in     *)
(*           future.wait or race), "returned" or "failed";                 *)
(*   wanted  the number of (type, matcher) pairs it was given;             *)
(*   slots   the futures of the expect_packet scopes it has entered;       *)
(*   trace   what it has done, in order; result  the message it returned;  *)
(*   error   the exception it failed with.                                 *)
(* The target is the UAV object of a system id: the one of the directory   *)
(* if the network has sighted the system, else one it has no address of.   *)
(***************************************************************************)
DEFAULT_NAME == ""

Targets == {7, 9}

\* lines 44-53: HEARTBEAT_SPEC
HEARTBEAT_SPEC ==
    [type |-> "HEARTBEAT",
     fields |-> <<Item("type", StrVal(TypeGCS)),
                  Item("autopilot", StrVal(<<"INVALID">>)),
                  Item("base_mode", IntVal(<<"0">>)),
                  Item("custom_mode", IntVal(<<"0">>)),
                  Item("system_status", StrVal(<<"STANDBY">>))>>]

\* the spec argument of the calls of send_packet
CommandSpec == [type |-> "COMMAND_LONG", fields |-> <<Item("command", Cmd400)>>]

\* lines 333-337: spec[1].update(target_system=..., target_component=...)
Targeted(spec, system_id) ==
    [spec EXCEPT !.fields = @ \o <<Item("target_system", system_id),
                                   Item("target_component", AUTOPILOT1)>>]

\* the wait_for_response and wait_for_one_of arguments: the (type, matcher)
\* pairs of the call, in the order of the dict
Wait(mode, pairs) == [mode |-> mode, pairs |-> pairs]
Pair(type, params) == [type |-> type, params |-> params]
PairAck400 == Pair("COMMAND_ACK", ParamsFields(<<Item("command", Cmd400)>>))
PairAck401 == Pair("COMMAND_ACK", ParamsCallable("command_is_401"))
PairAnyAck == Pair("COMMAND_ACK", ParamsNone)
PairHeartbeat == Pair("HEARTBEAT", ParamsFields(<<>>))
Waits ==
    { Wait("plain", <<>>),
      Wait("response", <<PairAck400>>),
      Wait("response", <<PairAck401>>),
      Wait("response", <<PairAnyAck>>),
      Wait("one_of", <<PairAck400, PairHeartbeat>>),
      Wait("one_of", <<PairAck401, PairAnyAck>>) }

\* lines 339, 299: self._uav_addresses.get(target); "" is None
AddressOf(d, system_id) ==
    IF d.uavs[system_id] = 0 THEN "" ELSE d.addresses[d.uavs[system_id]]

\* the matcher state a call works on
MatcherState == [matchers |-> matchers, futures |-> futures, scopes |-> scopes,
                 slots |-> <<>>, trace |-> <<>>, raised |-> ""]

\* lines 156-160: the future, the item and its place at the end of the list
Installed(st, type, f, item) ==
    [st EXCEPT !.futures = Append(@, NewFuture),
               !.scopes = Append(@, [status |-> "open", orphan |-> FALSE,
                                     type |-> type, item |-> item]),
               !.matchers[type] = Append(@, item),
               !.slots = Append(@, f),
               !.trace = Append(@, Ev("install", f, type))]

\* lines 144-162: expect_packet up to its yield, for the call
EnterScope(st, input, active) ==
    IF st.raised # ""
    THEN st
    ELSE IF ParamsRaise(input.params)
    THEN [st EXCEPT !.raised = "AttributeError"]
    ELSE IF ~active
    THEN [st EXCEPT !.raised = "TypeError"]
    ELSE Installed(st, input.type, Len(st.futures) + 1,
                   [system_id |-> input.system_id,
                    params |-> DecodeParams(input.params),
                    future |-> Len(st.futures) + 1])

\* lines 163-164: the finally clause of expect_packet, for the call
LeaveScope(st, f) ==
    [st EXCEPT !.scopes[f].status = "exited",
               !.futures[f] = ExitFuture(@),
               !.matchers[st.scopes[f].type] =
                    IF st.scopes[f].orphan THEN @
                    ELSE RemoveItem(@, st.scopes[f].item)]

\* lines 358-366: the scopes of the pairs are entered in order, from pair i
RECURSIVE EnterAll(_, _, _, _, _)
EnterAll(st, pairs, i, system_id, active) ==
    IF i > Len(pairs)
    THEN st
    ELSE EnterAll(EnterScope(st, Expect(pairs[i].type, <<system_id>>,
                                        pairs[i].params), active),
                  pairs, i + 1, system_id, active)

LeaveFirstOnly(st, i) == IF i = 0 THEN st ELSE LeaveScope(st, st.slots[1])

\* the exit of the with statement or of the ExitStack: the scopes entered
\* are left, the last one first
RECURSIVE LeaveAll(_, _)
LeaveAll(st, i) ==
    IF i = 0 THEN st ELSE LeaveAll(LeaveScope(st, st.slots[i]), i - 1)

\* the call after it has ended with the exception error
Failed(c, st, error) ==
    [c EXCEPT !.pc = "failed", !.slots = st.slots, !.trace = st.trace,
              !.error = error]

\* the state after a step of the call: st is the matcher state it leaves
CallStep(st, c, out) ==
    /\ matchers' = st.matchers
    /\ futures' = st.futures
    /\ scopes' = st.scopes
    /\ call' = c
    /\ outbox' = out
    /\ last_message' = NoMessage
    /\ trace' = <<>>
    /\ raised' = c.error
    /\ UNCHANGED <<uavVars, runVars, loopVars, sidekickVars, signalVars,
                   heartbeatVars, configVars, registryVars>>

\* a packet handed to the communication manager
Packet(spec, address) == [spec |-> spec, destination |-> <<DEFAULT_NAME, address>>]

\* lines 352, 371, 374, 304: the call of manager.send_packet; the manager
\* is bound only while run is active
IssueSend(c, st, packet, address) ==
    IF ~running
    THEN CallStep(LeaveAll(st, Len(st.slots)), Failed(c, st, "AttributeError"), outbox)
    ELSE CallStep(st, [c EXCEPT !.pc = "sending", !.slots = st.slots,
                               !.trace = Append(st.trace,
                                                Ev("send", c.target, packet.spec.type))],
                  Append(outbox, packet))

SentBeforeEntered(c, st, packet, address) ==
    IssueSend(c, MatcherState, packet, address)

\* lines 345-374: the scopes of the call have been entered, or one has raised
Entered(c, st, packet, address) ==
    IF st.raised # ""
    THEN CallStep(LeaveAll(st, Len(st.slots)), Failed(c, st, st.raised), outbox)
    ELSE IssueSend(c, st, packet, address)

SendWithoutAddress(c, pairs, packet, address) ==
    Entered(c, EnterAll(MatcherState, pairs, 1, c.target, running), packet, address)

\* lines 339-343 and 299-303: the address of the target, or a RuntimeError
WithAddress(c, pairs, packet, address) ==
    IF address = ""
    THEN CallStep(MatcherState, Failed(c, MatcherState, "RuntimeError"), outbox)
    ELSE Entered(c, EnterAll(MatcherState, pairs, 1, c.target, running),
                 packet, address)

NewCall(op, mode, system_id, wanted) ==
    [NoCall EXCEPT !.pc = "started", !.op = op, !.mode = mode,
                   !.target = system_id, !.wanted = wanted]

\* no call is in progress, and the model has room for another
CanCall(n) ==
    /\ call.pc \in {"idle", "returned", "failed"}
    /\ Len(outbox) < MaxSends
    /\ Len(futures) + n <= MaxFutures

\* lines 333-374: send_packet up to its first suspension point
SendPacket(system_id, wait) ==
    /\ CanCall(Len(wait.pairs))
    /\ WithAddress(NewCall("send_packet", wait.mode, system_id, Len(wait.pairs)),
                   wait.pairs,
                   Packet(Targeted(CommandSpec, system_id),
                          AddressOf(Directory, system_id)),
                   AddressOf(Directory, system_id))

\* lines 298-304: send_heartbeat up to its suspension point
SendHeartbeat(system_id) ==
    /\ CanCall(0)
    /\ WithAddress(NewCall("send_heartbeat", "plain", system_id, 0), <<>>,
                   Packet(HEARTBEAT_SPEC, AddressOf(Directory, system_id)),
                   AddressOf(Directory, system_id))

\* the matcher state as it is, with the scopes of the call
StateOf(c) == [MatcherState EXCEPT !.slots = c.slots, !.trace = c.trace]

\* manager.send_packet returns: a plain send is over, the others wait
ManagerSent ==
    /\ call.pc = "sending"
    /\ CallStep(StateOf(call),
                [call EXCEPT !.pc = IF call.mode = "plain" THEN "returned"
                                    ELSE "waiting"],
                outbox)

\* the call ends with an exception: its scopes are left
CallFails(error) ==
    CallStep(LeaveAll(StateOf(call), Len(call.slots)),
             Failed(call, StateOf(call), error), outbox)

\* manager.send_packet raises
ManagerFails ==
    /\ call.pc = "sending"
    /\ CallFails("SendError")

\* the slots of the call that are fulfilled
Resolved(c) == {i \in 1..Len(c.slots) : futures[c.slots[i]].state = "fulfilled"}

\* race: the slot that was resolved first, by the earliest message and, for
\* one message, by the earliest entry
Winner(c) ==
    CHOOSE i \in Resolved(c) :
        \A j \in Resolved(c) :
            \/ futures[c.slots[i]].value < futures[c.slots[j]].value
            \/ futures[c.slots[i]].value = futures[c.slots[j]].value /\ i <= j

\* lines 353 and 372: future.wait or race returns; the scopes are left
WaitReturns ==
    /\ call.pc = "waiting"
    /\ Resolved(call) # {}
    /\ CallStep(LeaveAll(StateOf(call), Len(call.slots)),
                [call EXCEPT !.pc = "returned",
                             !.result = futures[call.slots[Winner(call)]].value],
                outbox)

\* lines 353 and 372: the wait ends with the cancellation of the slots
WaitCancelled ==
    /\ call.pc = "waiting"
    /\ Resolved(call) = {}
    /\ \E i \in 1..Len(call.slots) : futures[call.slots[i]].state = "cancelled"
    /\ CallFails("CancelledError")

\* the task of the caller is cancelled at a suspension point
CallerCancelled ==
    /\ call.pc \in {"sending", "waiting"}
    /\ CallFails("Cancelled")

SendSpecNext ==
    \/ RunStart
    \/ RunExit
    \/ \E inbound \in Inbound(traffic) : Dispatch(inbound)
    \/ \E s \in Targets : \E wait \in Waits : SendPacket(s, wait)
    \/ \E s \in Targets : SendHeartbeat(s)
    \/ ManagerSent
    \/ ManagerFails
    \/ WaitReturns
    \/ WaitCancelled
    \/ CallerCancelled

SendInit == traffic = "sends" /\ Constructed

SendSpec == SendInit /\ [][SendSpecNext]_vars

\* the sends of the behaviours whose UAVs change their address
AddressInit == traffic = "addresses" /\ Constructed
AddressNext ==
    \/ RunStart
    \/ RunExit
    \/ \E inbound \in Inbound(traffic) : Dispatch(inbound)
    \/ \E s \in Targets : SendPacket(s, Wait("plain", <<>>))
    \/ \E s \in Targets : SendHeartbeat(s)
    \/ ManagerSent
    \/ ManagerFails
    \/ CallerCancelled
AddressSpec == AddressInit /\ [][AddressNext]_vars

(***************************************************************************)
(* The heartbeat emitter (_generate_heartbeats), a task of the             *)
(* communication manager that run starts.  heartbeats is the sequence of   *)
(* the broadcasts it has attempted, each with the connections on which the *)
(* send failed.                                                            *)
(***************************************************************************)
\* the connections of the network
Connections == {1, 2}

\* CommunicationManager.broadcast_packet: the packet is sent on every
\* connection; a failure on a connection is raised to the caller unless
\* allow_failure is set
BroadcastPacket(spec, allow_failure, failed) ==
    [spec |-> spec, allow_failure |-> allow_failure, failed |-> failed,
     raised |-> failed # {} /\ ~allow_failure]

BroadcastStrictly(failed) == BroadcastPacket(HEARTBEAT_SPEC, FALSE, failed)

\* line 421: await manager.broadcast_packet(HEARTBEAT_SPEC, allow_failure=True)
BroadcastHeartbeat(failed) == BroadcastPacket(HEARTBEAT_SPEC, TRUE, failed)

\* lines 420-421 and 249-259: the tick has made the attempt; an exception
\* of the broadcast leaves the emitter and ends run through its finally clause
Ticked(attempt) ==
    /\ heartbeats' = Append(heartbeats, attempt)
    /\ running' = ~attempt.raised
    /\ loop' = IF attempt.raised THEN "idle" ELSE loop
    /\ futures' = IF attempt.raised THEN CancelAll(matchers, futures) ELSE futures
    /\ raised' = IF attempt.raised THEN "SendError" ELSE ""

\* lines 420-421: one tick of periodic(1), with the connections the send
\* fails on
Tick(failed) ==
    /\ running
    /\ Len(heartbeats) < MaxTicks
    /\ Ticked(BroadcastHeartbeat(failed))
    /\ last_message' = NoMessage
    /\ trace' = <<>>
    /\ UNCHANGED <<traffic, matchers, scopes, uavVars, loopVars, sidekickVars,
                   signalVars, sendVars, configVars, registryVars>>

HeartbeatNext ==
    \/ RunStart
    \/ RunExit
    \/ \E failed \in SUBSET Connections : Tick(failed)

HeartbeatInit == traffic = "none" /\ Constructed

HeartbeatSpec == HeartbeatInit /\ [][HeartbeatNext]_vars

(***************************************************************************)
(* Networks built with any system id of the configuration, or with none.   *)
(***************************************************************************)
\* the system ids a specification can give
ServerSystemIds == 1..255

ConfigInit ==
    /\ traffic = "none"
    /\ Built
    /\ \E given \in {0} \cup ServerSystemIds : BuiltWith(given)

ConfigNext ==
    \/ RunStart
    \/ RunExit

ConfigSpec == ConfigInit /\ [][ConfigNext]_vars

(***************************************************************************)
(* Properties.                                                             *)
(***************************************************************************)
\* the future f is held by an entry of the table
InTable(table, f) ==
    \E t \in DOMAIN table : \E i \in 1..Len(table[t]) : table[t][i].future = f

\* the step is the exit of the scope of future f
ExitStep(f) == scopes[f].status = "open" /\ scopes'[f].status = "exited"

\* the step is one iteration of the dispatch loop, on last_message'
DispatchStep == received' = received + 1

\* the entry of future f is in the table the loop reads and message m
\* satisfies it: the type, the source system and the predicate
Satisfies(f, m) ==
    /\ InTable(matchers, f)
    /\ scopes[f].type = m.type
    /\ Matched(scopes[f].item, m)

HasEvent(events, ev) == \E i \in 1..Len(events) : events[i].ev = ev

C2_SingleFulfillment ==
    [][/\ \A f \in 1..Len(futures) :
             futures[f].state = "fulfilled" => futures'[f] = futures[f]
       /\ (/\ DispatchStep
           /\ FromAutopilot(last_message')
           /\ \E f \in 1..Len(futures) :
                 futures[f].state = "fulfilled" /\ Satisfies(f, last_message'))
          => /\ HasEvent(trace', "handler") \/ HasEvent(trace', "warn")
             /\ loop' = "consuming"
             /\ running'
      ]_vars

\* a second satisfying message met a fulfilled slot, and its handler ran
C2_Witness ==
    \E i \in 1..Len(trace) : \E j \in 1..Len(trace) :
        /\ i < j
        /\ trace[i].ev = "dup"
        /\ trace[j].ev = "handler"
        /\ futures[trace[i].n].state = "fulfilled"

\* C3: when a message satisfies an installed entry, the slot of the entry is
\* resolved after the iteration, to that message if the slot was pending and
\* to the message it already held otherwise: of two satisfying messages M1
\* and M2 the slot holds M1.
C3_ResolvesToFirst ==
    [][DispatchStep /\ FromAutopilot(last_message') =>
          \A f \in 1..Len(futures) : Satisfies(f, last_message') =>
              /\ futures'[f].state = "fulfilled"
              /\ futures'[f].value =
                    IF futures[f].state = "pending"
                    THEN last_message'.id
                    ELSE futures[f].value
      ]_vars

\* M2 has just been dispatched to an entry that M1, the message before it,
\* resolved
C3_Witness ==
    \E f \in 1..Len(futures) :
        /\ last_message.id = 2
        /\ futures[f].state = "fulfilled"
        /\ futures[f].value = 1
        /\ \E i \in 1..Len(trace) : trace[i].ev = "dup" /\ trace[i].n = f

\* C4: if a scope exits before any matching message has resolved its slot,
\* the slot is cancelled: the exit of a scope whose slot is pending leaves the
\* slot in the cancelled state.
C4_ExitCancelsPending ==
    [][\A f \in 1..Len(scopes) :
          ExitStep(f) /\ futures[f].state = "pending" =>
              futures'[f].state = "cancelled"
      ]_vars

\* what the finally clause of expect_packet does instead (C4): the exit of a
\* scope leaves its slot as it is; a slot that is pending when its scope exits
\* is pending afterwards, and stays pending.
C4_ExitLeavesSlot ==
    /\ [][\A f \in 1..Len(scopes) : ExitStep(f) => futures'[f] = futures[f]]_vars
    /\ [][\A f \in 1..Len(scopes) :
            scopes[f].status = "exited" => futures'[f] = futures[f]]_vars

\* a scope has exited with its slot pending
C4_Witness ==
    \E f \in 1..Len(scopes) :
        scopes[f].status = "exited" /\ futures[f].state = "pending"

\* C5: the finally clause of run cancels every pending slot whose entry is in
\* the table (a slot already fulfilled stays fulfilled), so that once run has
\* ended no open scope holds a pending slot.
C5_ShutdownCancels ==
    /\ [][running /\ ~running' =>
            \A f \in 1..Len(futures) : InTable(matchers, f) =>
                /\ futures'[f].state # "pending"
                /\ futures[f].state = "pending" => futures'[f].state = "cancelled"
         ]_vars
    /\ [](\A f \in 1..Len(scopes) :
            scopes[f].status = "open" /\ (~running \/ scopes[f].orphan)
                => futures[f].state # "pending")

\* run has ended with two open scopes: both slots are cancelled
C5_Witness ==
    /\ ~running
    /\ \E f \in 1..Len(scopes) : \E g \in 1..Len(scopes) :
          /\ f # g
          /\ scopes[f].status = "open" /\ futures[f].state = "cancelled"
          /\ scopes[g].status = "open" /\ futures[g].state = "cancelled"
          /\ scopes[f].type = scopes[g].type

\* C6: a message whose source component is not AUTOPILOT1 fulfils no slot,
\* invokes no handler, creates no UAV, changes no address and logs no
\* warning: the iteration changes nothing but the count of messages.
C6_ComponentFilter ==
    [][DispatchStep /\ last_message'.comp # AUTOPILOT1 =>
          /\ UNCHANGED <<matcherVars, uavVars, nops, log, loop>>
          /\ trace' = <<Ev("filtered", 0, last_message'.type)>>
      ]_vars

\* a message of another component has been dropped that a pending entry of
\* the table would have matched, or that would have created a UAV, or that
\* is of a type without a handler
C6_Witness ==
    /\ last_message.comp = "CAMERA"
    /\ \/ \E f \in 1..Len(futures) :
             futures[f].state = "pending" /\ Satisfies(f, last_message)
       \/ last_message.type = "HEARTBEAT" /\ uavs[last_message.src] = 0
       \/ ~HasHandler(nops, last_message.type)

\* the effects of a handler call
HandlerEvents ==
    {"handler", "create", "address", "forward", "prearm", "log", "exception"}

\* C7: in every iteration the slots of the matchers the message satisfies are
\* fulfilled before its handler is invoked: no effect of the handler (on the
\* UAV directory or on a UAV) precedes a fulfilment.
C7_MatcherBeforeHandler ==
    \A i \in 1..Len(trace) : \A j \in 1..Len(trace) :
        trace[i].ev \in {"fulfill", "dup"} /\ trace[j].ev \in HandlerEvents
            => i < j

\* a heartbeat has fulfilled a slot and created the UAV of its sender
C7_Witness ==
    /\ HasEvent(trace, "fulfill")
    /\ HasEvent(trace, "create")
    /\ HasEvent(trace, "forward")

\* "DRN-{0}-{1}".format(s, "alpha"), written out
DrnId(s) ==
    <<"D", "R", "N", "-">> \o (IF s = 7 THEN <<"7">> ELSE <<"9">>)
        \o <<"-", "a", "l", "p", "h", "a">>

\* C8: the directory holds one UAV per sighted system s # 0 and none for
\* system 0; the UAV of s has the drone id id_formatter(s, network_id), is
\* assigned to (network_id, s) and was registered exactly once; it is never
\* replaced, and every message forwarded goes to the UAV of its sender.
C8_UavCreatedOnce ==
    /\ [](/\ uavs[0] = 0
          /\ Len(uav_objects) = Cardinality({s \in SystemIds : uavs[s] # 0})
          /\ Len(registry) = Len(uav_objects)
          /\ \A s \in SystemIds : uavs[s] # 0 =>
                /\ uavs[s] \in 1..Len(uav_objects)
                /\ uav_objects[uavs[s]].system_id = s
                /\ uav_objects[uavs[s]].network_id = NetworkId
                /\ uav_objects[uavs[s]].drone_id = DrnId(s)
                /\ Cardinality({k \in 1..Len(registry) : registry[k] = uavs[s]}) = 1
          /\ \A i \in 1..Len(trace) : trace[i].ev \in {"forward", "prearm"} =>
                trace[i].n # 0 /\ trace[i].n = uavs[last_message.src])
    /\ [][\A s \in SystemIds : uavs[s] # 0 =>
             /\ uavs'[s] = uavs[s]
             /\ uav_objects'[uavs[s]] = uav_objects[uavs[s]]
         ]_vars

\* two systems have a UAV each, and a later message of one of them has been
\* forwarded without creating anything
C8_Witness ==
    /\ uavs[7] # 0
    /\ uavs[9] # 0
    /\ HasEvent(trace, "forward")
    /\ ~HasEvent(trace, "create")

\* the warnings of the log, as the sequence of their types
Warnings == SelectSeq(log, LAMBDA line : line.level = "warning")

\* C9: within one run, an autopilot message of a type without a handler logs
\* one warning if no message of that type has been warned about, whatever
\* other types have been, and none otherwise; no other message logs one.
C9_UnknownTypeWarnedOnce ==
    /\ [](\A i \in 1..Len(Warnings) : \A j \in 1..Len(Warnings) :
            i # j => Warnings[i].x # Warnings[j].x)
    /\ [][DispatchStep =>
            Warnings' =
                IF /\ FromAutopilot(last_message')
                   /\ last_message'.type \notin NopTypes \cup MethodTypes
                   /\ \A i \in 1..Len(Warnings) : Warnings[i].x # last_message'.type
                THEN Append(Warnings, LogLine("warning", last_message'.type))
                ELSE Warnings
         ]_vars

\* two types have been warned about, and a second message of one of them
\* has gone to the nop without a warning
C9_Witness ==
    /\ Len(Warnings) = 2
    /\ last_message.type \notin NopTypes \cup MethodTypes
    /\ trace = <<Ev("handler", 0, last_message.type)>>

\* the message is a pre-arm STATUSTEXT of the broadcast source
PreArmOfNobody(m) ==
    /\ m.type = "STATUSTEXT"
    /\ m.src = 0
    /\ GetAttr(m.fields, "text") = StrVal(TextPreArm)

\* C10: an iteration whose handler raises (a pre-arm STATUSTEXT of system 0)
\* logs the exception and leaves the loop consuming and the network running;
\* no iteration stops the loop.
C10_HandlerExceptionsContained ==
    [][DispatchStep =>
          /\ loop' = "consuming"
          /\ running'
          /\ FromAutopilot(last_message') /\ PreArmOfNobody(last_message') =>
                /\ HasEvent(trace', "exception")
                /\ log' = Append(log, LogLine("exception", "STATUSTEXT"))
                /\ UNCHANGED <<matchers, uavVars, nops>>
      ]_vars

\* after a logged exception a later message has fulfilled a slot and has
\* been handled
C10_Witness ==
    /\ \E i \in 1..Len(log) : log[i].level = "exception"
    /\ ~HasEvent(trace, "exception")
    /\ HasEvent(trace, "fulfill")
    /\ HasEvent(trace, "handler")

\* C17: a call of expect_packet with no predicate (params None) while run is
\* active installs an entry of a new pending slot in the matcher table.
C17_WildcardInstalls ==
    [][\A input \in ExpectInputs(traffic) :
          running /\ input.params.kind = "none" /\ ExpectPacket(input) =>
              /\ raised' = ""
              /\ Len(futures') = Len(futures) + 1
              /\ InTable(matchers', Len(futures'))
      ]_vars

\* expect_packet has been called with params None while run is active, and
\* has raised
C17_Witness ==
    /\ running
    /\ raised = "AttributeError"
    /\ \A t \in MessageTypes : matchers[t] = <<>>

\* the queue of the connection holds BufferSize payloads
Full(client) == client.pc = "sending" /\ Len(client.queue) = BufferSize

\* the step is one call of handle_mavlink_rtk_packet_fragments
FragmentsStep == sk_step'.op = "fragments"

InChannels(c) == \E i \in 1..Len(channels) : channels[i] = c

\* C11: when the handler forwards a batch while the queue of some subscriber
\* of the list holds 16 payloads, the queue of every full subscriber is left
\* as it is, and every other subscriber of the list that is being served
\* gets one copy of the payload: a blocked receiver takes it, a queue with
\* room is extended by it.
C11_BackpressureIsolation ==
    [][FragmentsStep /\ (\E c \in 1..MaxClients : InChannels(c) /\ Full(clients[c])) =>
          \A c \in 1..MaxClients : InChannels(c) =>
              /\ Len(clients'[c].queue) <= BufferSize
              /\ Full(clients[c]) => clients'[c] = clients[c]
              /\ clients[c].pc = "receiving" =>
                    clients'[c] = [clients[c] EXCEPT !.pc = "sending"]
              /\ clients[c].pc = "sending" /\ ~Full(clients[c]) =>
                    clients'[c] = [clients[c] EXCEPT !.queue = Append(@, Payload)]
      ]_vars

\* a batch has been forwarded while one subscriber was full and another had
\* room
C11_Witness ==
    /\ sk_step.op = "fragments"
    /\ sk_step.num_dropped = 1
    /\ \E c \in 1..MaxClients : InChannels(c) /\ Full(clients[c])
    /\ \E c \in 1..MaxClients :
          InChannels(c) /\ clients[c].pc = "sending" /\ Len(clients[c].queue) = 1

\* C12: each call of the handler logs exactly one warning if at least one
\* subscriber dropped the payload, and nothing if none did.
C12_OneWarningPerBatch ==
    [][FragmentsStep =>
          sk_step'.log = IF sk_step'.num_dropped > 0
                         THEN <<SidekickLine("warning", "backpressure")>>
                         ELSE <<>>
      ]_vars

\* two subscribers have dropped the payload of one batch
C12_Witness ==
    /\ sk_step.op = "fragments"
    /\ sk_step.num_dropped = 2

\* the connections that are being served, in the order of accept
Served ==
    SelectSeq([c \in 1..MaxClients |-> c],
              LAMBDA c : clients[c].pc \in {"receiving", "sending", "closing"})

\* C18: the list of channels holds exactly the channels of the connections
\* being served, in the order of accept; when serving a connection ends, by
\* a disconnect or by any other exception, nothing leaves
\* handle_connection_safely, the channel of the connection is removed, the
\* others stay in order, and the server goes on accepting.
C18_ClientFaultsContained ==
    /\ [](channels = Served /\ acceptor = "serving")
    /\ [][sk_step'.op = "ended" /\ sk_step' # sk_step =>
            /\ sk_step'.raised = ""
            /\ clients'[sk_step'.client].pc = "done"
            /\ channels' = SelectSeq(channels, LAMBDA x : x # sk_step'.client)
            /\ \A c \in 1..MaxClients :
                  c # sk_step'.client => clients'[c] = clients[c]
         ]_vars

\* the second of three connections has ended with an exception that is no
\* disconnect; the other two are still served
C18_Witness ==
    /\ sk_step.op = "ended"
    /\ sk_step.client = 2
    /\ clients[2].error = "OSError"
    /\ sk_step.log = <<SidekickLine("exception", "OSError")>>
    /\ channels = <<1, 3>>
    /\ acceptor = "serving"

\* the number of calls of receiver r in the sequence calls
TimesCalled(calls, r) == Cardinality({i \in 1..Len(calls) : calls[i] = r})

\* C19: a call of send with at most one positional argument does not raise;
\* it calls every receiver connected for the sender or for ANY exactly once,
\* also when other receivers raise, and calls no other receiver; the list
\* it returns has one pair per call, in the order of the calls: the receiver
\* with the value it returned, or with the exception it raised.
C19_ListenersShielded ==
    sig_step.op = "send" /\ Len(sig_step.args) <= 1 =>
        /\ sig_step.raised = ""
        /\ \A r \in Receivers :
              TimesCalled(sig_step.calls, r) =
                  IF r \in ReceiversFor(receivers, SenderOf(sig_step.args))
                  THEN 1 ELSE 0
        /\ Len(sig_step.result) = Len(sig_step.calls)
        /\ \A i \in 1..Len(sig_step.result) :
              sig_step.result[i] =
                  <<sig_step.calls[i],
                    IF receivers[sig_step.calls[i]].raises
                    THEN Raised(sig_step.calls[i])
                    ELSE Returned(sig_step.calls[i])>>
        /\ sig_step.log =
              Cardinality({r \in ReceiversFor(receivers, SenderOf(sig_step.args)) :
                              receivers[r].raises})

\* three receivers have been called, the first of them raised, and one of
\* the other two is connected for the sender only
C19_Witness ==
    /\ sig_step.op = "send"
    /\ sig_step.args = <<"s1">>
    /\ Len(sig_step.calls) = 3
    /\ receivers[sig_step.calls[1]].raises
    /\ ~receivers[sig_step.calls[2]].raises
    /\ ~receivers[sig_step.calls[3]].raises
    /\ receivers[sig_step.calls[3]].sender = "s1"
    /\ sig_step.log = 1

(***************************************************************************)
(* Targeted sends.                                                         *)
(***************************************************************************)
\* a step that is a call of send_packet or of send_heartbeat
CallStarts ==
    /\ call.pc \in {"idle", "returned", "failed"}
    /\ call' # call

\* the target of the call the step makes has no address in the network
TargetUnknown == AddressOf(Directory, call'.target) = ""

\* C13: a call of send_packet or send_heartbeat to a target the network holds
\* no address of fails with the RuntimeError "UAV has no address in this
\* network"; it hands nothing to the communication manager and it adds no
\* entry to the matcher table, whatever wait it was given.
C13_NoAddressFails ==
    [][(CallStarts /\ TargetUnknown) =>
            /\ call'.pc = "failed"
            /\ call'.error = "RuntimeError"
            /\ call'.slots = <<>>
            /\ outbox' = outbox
            /\ matcherVars' = matcherVars]_vars

\* a composite wait to a target without an address has failed while the
\* network was running
C13_Witness ==
    /\ running
    /\ call.pc = "failed"
    /\ call.error = "RuntimeError"
    /\ call.op = "send_packet"
    /\ call.mode = "one_of"
    /\ AddressOf(Directory, call.target) = ""

\* the call c is suspended in manager.send_packet or in its wait
InFlight(c) == c.pc \in {"sending", "waiting"}

\* the message m passes the params of the entry item: the fields of a dict
\* are equal to the message's, a callable returns True
PredicateHolds(item, m) ==
    IF item.params.kind = "callable"
    THEN CallPredicate(item.params.name, m)
    ELSE \A i \in 1..Len(item.params.map) :
            ValEq(GetAttr(m.fields, item.params.map[i].name),
                  item.params.map[i].value)

\* the message m is a reply to the call c for its slot f: a message of the
\* awaited type, from the autopilot of the target, that passes the params
ReplyTo(c, f, m) ==
    /\ m.type = scopes[f].type
    /\ m.src = c.target
    /\ m.comp = AUTOPILOT1
    /\ PredicateHolds(scopes[f].item, m)

\* the step issues the outbound send of a call
SendIssued == call.pc # "sending" /\ call'.pc = "sending"

\* C14: a send_packet with wait_for_response has its matcher entry in the
\* table when the send is issued (the install comes first and the send is
\* the only thing handed to the manager); the entry stays in the table while
\* the call is suspended and its slot is pending, so a reply dispatched then
\* fulfils the slot with that reply, and the call returns the reply of its
\* slot; when manager.send_packet fails, the entry is removed and the call
\* fails with the error of the send.
C14_MatcherBeforeSend ==
    [][/\ (SendIssued /\ call'.mode = "response") =>
            /\ Len(call'.slots) = 1
            /\ call'.trace = <<Ev("install", call'.slots[1], scopes'[call'.slots[1]].type),
                               Ev("send", call'.target, CommandSpec.type)>>
            /\ InTable(matchers', call'.slots[1])
            /\ futures'[call'.slots[1]].state = "pending"
            /\ outbox' = Append(outbox, outbox'[Len(outbox')])
       /\ (InFlight(call') /\ call'.mode = "response") =>
            /\ Len(call'.slots) = 1
            /\ futures'[call'.slots[1]].state = "pending"
                    => InTable(matchers', call'.slots[1])
       /\ (DispatchStep /\ InFlight(call) /\ call.mode = "response"
           /\ futures[call.slots[1]].state = "pending"
           /\ ReplyTo(call, call.slots[1], last_message')) =>
            futures'[call.slots[1]] = [state |-> "fulfilled",
                                       value |-> last_message'.id]
       /\ (call.mode = "response" /\ call.pc = "waiting"
           /\ call'.pc = "returned") =>
            /\ futures[call.slots[1]].state = "fulfilled"
            /\ call'.result = futures[call.slots[1]].value
            /\ ~InTable(matchers', call.slots[1])
       /\ (call.mode = "response" /\ call.pc = "sending"
           /\ call'.pc = "failed" /\ call'.error = "SendError") =>
            /\ raised' = "SendError"
            /\ ~InTable(matchers', call.slots[1])
            /\ scopes'[call.slots[1]].status = "exited"
            /\ outbox' = outbox]_vars

\* a call with wait_for_response and a callable matcher has returned the
\* reply that was dispatched after its send was issued
C14_Witness ==
    /\ call.mode = "response"
    /\ call.pc = "returned"
    /\ call.result = 2
    /\ received = 2
    /\ Len(call.slots) = 1
    /\ scopes[call.slots[1]].item.params.kind = "callable"
    /\ ~InTable(matchers, call.slots[1])

\* the entry e was installed for a source system other than the one of m
OtherSystem(e, m) == e.system_id # <<>> /\ e.system_id[1] # m.src

\* the callable of the slot f was called in the events
CalledFor(events, f) ==
    \E i \in 1..Len(events) : events[i].ev = "call" /\ events[i].n = f

\* C15: an iteration of the dispatch loop leaves the slot of every entry
\* that was installed for another source system than the message's as it was,
\* and does not call the callable of such an entry, whether or not the
\* message passes the params; and every entry a send_packet installs carries
\* the system id of the target.
C15_SourceSystemFilter ==
    [][/\ DispatchStep =>
            \A i \in 1..Len(matchers[last_message'.type]) :
                OtherSystem(matchers[last_message'.type][i], last_message') =>
                    /\ futures'[matchers[last_message'.type][i].future]
                            = futures[matchers[last_message'.type][i].future]
                    /\ ~CalledFor(trace', matchers[last_message'.type][i].future)
       /\ \A i \in 1..Len(call'.slots) :
            scopes'[call'.slots[i]].item.system_id = <<call'.target>>]_vars

\* the loop has just dispatched a message of another system that passes the
\* callable of a suspended call, whose slot is pending and in the table
C15_Witness ==
    /\ InFlight(call)
    /\ call.mode = "response"
    /\ last_message.id = received
    /\ last_message.comp = AUTOPILOT1
    /\ last_message.src # call.target
    /\ last_message.type = scopes[call.slots[1]].type
    /\ scopes[call.slots[1]].item.params.kind = "callable"
    /\ PredicateHolds(scopes[call.slots[1]].item, last_message)
    /\ InTable(matchers, call.slots[1])
    /\ futures[call.slots[1]].state = "pending"

\* the call c has ended, by a return or by an exception
Over(c) == c.pc \in {"returned", "failed"}

\* the number of sends the call has issued
SendsIssued(c) == Len(SelectSeq(c.trace, LAMBDA e : e.ev = "send"))

\* C16: a send_packet with wait_for_one_of has the entries of all its pairs in
\* the table, installed in order, when it issues its send; it hands exactly
\* one packet to the manager, and nothing is handed to it otherwise; it
\* returns the message of a fulfilled slot that no other slot was fulfilled
\* before; and once it has returned or failed, by an error of the send, by an
\* error of one of its scopes, by the cancellation of its slots or by its own
\* cancellation, no entry of a scope it entered is in the table.
C16_CompositeWait ==
    [][/\ (SendIssued /\ call'.mode = "one_of") =>
            /\ Len(call'.slots) = call'.wanted
            /\ call'.wanted > 1
            /\ call'.trace =
                  [i \in 1..call'.wanted |->
                      Ev("install", call'.slots[i], scopes'[call'.slots[i]].type)]
                  \o <<Ev("send", call'.target, CommandSpec.type)>>
            /\ \A i \in 1..call'.wanted :
                  /\ InTable(matchers', call'.slots[i])
                  /\ futures'[call'.slots[i]].state = "pending"
            /\ Len(outbox') = Len(outbox) + 1
       /\ outbox' # outbox => SendIssued
       /\ call'.mode = "one_of" =>
            /\ SendsIssued(call') <= 1
            /\ (InFlight(call') \/ call'.pc = "returned") => SendsIssued(call') = 1
       /\ (call.mode = "one_of" /\ call.pc = "waiting" /\ call'.pc = "returned") =>
            \E i \in 1..Len(call.slots) :
                /\ futures[call.slots[i]].state = "fulfilled"
                /\ call'.result = futures[call.slots[i]].value
                /\ \A j \in 1..Len(call.slots) :
                      futures[call.slots[j]].state = "fulfilled" =>
                          futures[call.slots[j]].value >= call'.result
       /\ (call'.mode = "one_of" /\ Over(call')) =>
            \A i \in 1..Len(call'.slots) :
                /\ ~InTable(matchers', call'.slots[i])
                /\ scopes'[call'.slots[i]].status = "exited"]_vars

\* a composite wait has returned the message that fulfilled its second slot,
\* which was dispatched before the one that fulfilled its first slot
C16_Witness ==
    /\ call.mode = "one_of"
    /\ call.pc = "returned"
    /\ Len(call.slots) = 2
    /\ futures[call.slots[1]].state = "fulfilled"
    /\ futures[call.slots[2]].state = "fulfilled"
    /\ futures[call.slots[2]].value < futures[call.slots[1]].value
    /\ call.result = futures[call.slots[2]].value
    /\ ~InTable(matchers, call.slots[1])
    /\ ~InTable(matchers, call.slots[2])

(***************************************************************************)
(* The heartbeat emitter.                                                  *)
(***************************************************************************)
\* the step is a tick of the emitter
TickStep == Len(heartbeats') = Len(heartbeats) + 1

\* the fields of the heartbeat of a ground control station
GcsHeartbeat ==
    [type |-> "HEARTBEAT",
     fields |-> <<Item("type", StrVal(TypeGCS)),
                  Item("autopilot", StrVal(<<"INVALID">>)),
                  Item("base_mode", IntVal(<<"0">>)),
                  Item("custom_mode", IntVal(<<"0">>)),
                  Item("system_status", StrVal(<<"STANDBY">>))>>]

\* C20: every tick of the emitter while the network runs attempts one
\* broadcast of the heartbeat of a ground control station, and whatever the
\* connections the send fails on, the tick raises nothing and leaves the
\* network running, the dispatch loop and the matcher slots as they were; so
\* the ticks that follow are attempted as well.
C20_HeartbeatTolerant ==
    [][TickStep =>
            /\ running
            /\ heartbeats' = Append(heartbeats, heartbeats'[Len(heartbeats')])
            /\ heartbeats'[Len(heartbeats')].spec = GcsHeartbeat
            /\ ~heartbeats'[Len(heartbeats')].raised
            /\ running'
            /\ raised' = ""
            /\ loop' = loop
            /\ futures' = futures]_vars

\* a broadcast was attempted after one that failed on every connection and
\* one that failed on a single connection
C20_Witness ==
    /\ running
    /\ Len(heartbeats) = 3
    /\ heartbeats[1].failed = Connections
    /\ heartbeats[2].failed = {1}
    /\ heartbeats[3].failed = {}

(***************************************************************************)
(* The runtime state of the network.                                       *)
(***************************************************************************)
\* the exceptions of a caller that finds the matcher table or the
\* communication manager unbound
Unbound == {"TypeError", "AttributeError"}

\* C21: the matcher table and the communication manager are bound exactly
\* while run is active.  A call that needs them (a send to a UAV with a known
\* address) made before the first run or after a run has ended fails on the
\* missing table or manager, adds no entry and hands nothing over; made
\* during a run it never fails on a missing table, and a plain send reaches
\* the manager.  Every run, the first or a later one, starts with an empty
\* matcher table, and the end of a run unbinds the state again.
C21_RuntimeStateIffRun ==
    [][/\ (~running /\ running') => matchers' = EmptyTable
       /\ (CallStarts /\ ~TargetUnknown /\ ~running) =>
            /\ call'.pc = "failed"
            /\ call'.error \in Unbound
            /\ matcherVars' = matcherVars
            /\ outbox' = outbox
       /\ (CallStarts /\ ~TargetUnknown /\ running) =>
            /\ call'.error # "TypeError"
            /\ call'.mode = "plain" =>
                  call'.pc = "sending" /\ Len(outbox') = Len(outbox) + 1]_vars

\* after a run that sighted the target has ended, a send with a wait has
\* failed on the missing matcher table
C21_Witness ==
    /\ ~running
    /\ received > 0
    /\ call.pc = "failed"
    /\ call.error = "TypeError"
    /\ call.mode = "response"
    /\ AddressOf(Directory, call.target) # ""

(***************************************************************************)
(* The predicates of the matcher entries.                                  *)
(***************************************************************************)
\* the message m has the field of the pair, with the value of the pair
Agrees(m, pair) ==
    \E j \in 1..Len(m.fields) :
        m.fields[j].name = pair.name /\ m.fields[j].value = pair.value

\* the message m agrees with every pair of the mapping
AgreesWithAll(m, map) == \A i \in 1..Len(map) : Agrees(m, map[i])

\* the entries of the type of m that hold a field mapping and a pending
\* slot, and whose source filter m passes
MappingEntries(m) ==
    {i \in 1..Len(matchers[m.type]) :
        /\ matchers[m.type][i].params.kind = "fields"
        /\ ~OtherSystem(matchers[m.type][i], m)
        /\ futures[matchers[m.type][i].future].state = "pending"}

C23_BroadcastSourceCreatesNothing ==
    [][(DispatchStep /\ last_message'.src = 0) =>
            /\ uavVars' = uavVars
            /\ \A i \in 1..Len(trace') :
                  trace'[i].ev \notin {"create", "address", "forward", "prearm"}]_vars

\* the handler of a vehicle heartbeat of system 0 has run while the directory
\* held a UAV, and there is no UAV for system 0
C23_Witness ==
    /\ last_message.id = received
    /\ last_message.src = 0
    /\ last_message.comp = AUTOPILOT1
    /\ last_message.type = "HEARTBEAT"
    /\ IsVehicle(GetAttr(last_message.fields, "type"))
    /\ HasEvent(trace, "handler")
    /\ uavs[0] = 0
    /\ Len(uav_objects) = 1
    /\ Len(registry) = 1

\* the message m does not concern a vehicle: a heartbeat of something that
\* is no vehicle, a DATA16 that is no drone show status, a STATUSTEXT that is
\* no pre-arm failure, a TIMESYNC, or a message of a type mapped to nop
ConcernsNoVehicle(m) ==
    \/ m.type = "HEARTBEAT" /\ ~IsVehicle(GetAttr(m.fields, "type"))
    \/ m.type = "DATA16" /\ GetAttr(m.fields, "type") # DroneShowStatusType
    \/ m.type = "STATUSTEXT"
            /\ ~StartsWith(GetAttr(m.fields, "text").v, PreArmPrefix)
    \/ m.type = "TIMESYNC"
    \/ m.type \in NopTypes

\* C25: an iteration of the dispatch loop on a message that does not concern
\* a vehicle creates no UAV and changes no address: the directory, the UAV
\* objects, the address map and the registry are as they were, whether or
\* not the source system has a UAV.
C25_NoVehicleNoChange ==
    [][(DispatchStep /\ ConcernsNoVehicle(last_message')) =>
            /\ uavVars' = uavVars
            /\ \A i \in 1..Len(trace') :
                  trace'[i].ev \notin {"create", "address", "forward", "prearm"}]_vars

\* the handler of a heartbeat of a ground station of system 7 has run: the
\* UAV of system 7 keeps the address of its own heartbeat, and system 9 has
\* no UAV
C25_Witness ==
    /\ last_message.id = received
    /\ last_message.src = 7
    /\ last_message.type = "HEARTBEAT"
    /\ last_message.addr = "a2"
    /\ ~IsVehicle(GetAttr(last_message.fields, "type"))
    /\ HasEvent(trace, "handler")
    /\ uavs[7] # 0
    /\ uav_addresses[uavs[7]] = "a1"
    /\ uavs[9] = 0

\* the last-known address of system s in a directory and an address map
AddressIn(directory, addresses, s) ==
    IF directory[s] = 0 THEN "" ELSE addresses[directory[s]]

\* the handler of the message m looks its UAV up: m comes from the autopilot
\* of a system other than 0 and is forwarded to the UAV
BearsUav(m) ==
    /\ m.comp = AUTOPILOT1
    /\ m.src # 0
    /\ \/ m.type \in {"AUTOPILOT_VERSION", "GLOBAL_POSITION_INT", "GPS_RAW_INT",
                      "SYS_STATUS"}
       \/ m.type = "HEARTBEAT" /\ IsVehicle(GetAttr(m.fields, "type"))
       \/ m.type = "DATA16" /\ GetAttr(m.fields, "type") = DroneShowStatusType
       \/ m.type = "STATUSTEXT" /\ StartsWith(GetAttr(m.fields, "text").v, PreArmPrefix)

\* C24: the last-known address of a system is the peer address of the last
\* message of that system whose handler looked its UAV up: such a message
\* sets the address of its system to its own and leaves the others, and no
\* other step changes an address; a targeted send goes to the default
\* channel name and the address the target has at that moment.
C24_AddressLastWriteWins ==
    [][/\ \A s \in SystemIds :
            AddressIn(uavs', uav_addresses', s) =
                IF DispatchStep /\ BearsUav(last_message') /\ last_message'.src = s
                THEN last_message'.addr
                ELSE AddressIn(uavs, uav_addresses, s)
       /\ SendIssued =>
            /\ AddressIn(uavs, uav_addresses, call'.target) # ""
            /\ outbox'[Len(outbox')].destination =
                  <<DEFAULT_NAME, AddressIn(uavs, uav_addresses, call'.target)>>]_vars

\* two sends to the same UAV have gone to two addresses: to the one of its
\* first heartbeat, and then to the one of a later heartbeat
C24_Witness ==
    /\ Len(outbox) = 2
    /\ outbox[1].destination = <<"", "a1">>
    /\ outbox[2].destination = <<"", "a2">>
    /\ uav_addresses[uavs[7]] = "a2"
    /\ Len(uav_objects) = 1

\* the events ev of a trace
EventsOf(events, ev) == SelectSeq(events, LAMBDA e : e.ev = ev)

\* the message m is a pre-arm failure report: its text begins with "PreArm: "
ReportsPreArm(m) ==
    /\ Len(GetAttr(m.fields, "text").v) >= 8
    /\ SubSeq(GetAttr(m.fields, "text").v, 1, 8)
            = <<"P", "r", "e", "A", "r", "m", ":", " ">>

\* C26: an iteration of the dispatch loop on a STATUSTEXT of the autopilot of
\* a system s # 0 whose text begins with "PreArm: " leaves a UAV for s in the
\* directory (a new one if s had none, else the one it had), notifies that
\* UAV and no other, once, with the text after the first 8 characters, and
\* logs nothing; on any other STATUSTEXT it logs one line, at the level the
\* severity of the message is mapped to, notifies no UAV and leaves the
\* directory alone.
C26_PreArmRouting ==
    [][(DispatchStep /\ last_message'.type = "STATUSTEXT"
        /\ last_message'.comp = AUTOPILOT1 /\ last_message'.src # 0) =>
            IF ReportsPreArm(last_message')
            THEN /\ uavs'[last_message'.src] # 0
                 /\ uavs[last_message'.src] # 0 => uavs' = uavs
                 /\ Len(uav_objects') =
                        Len(uav_objects) + (IF uavs[last_message'.src] = 0 THEN 1 ELSE 0)
                 /\ EventsOf(trace', "prearm") =
                        <<Ev("prearm", uavs'[last_message'.src],
                             SubSeq(GetAttr(last_message'.fields, "text").v, 9,
                                    Len(GetAttr(last_message'.fields, "text").v)))>>
                 /\ EventsOf(trace', "log") = <<>>
                 /\ log' = log
            ELSE /\ EventsOf(trace', "log") =
                        <<Ev("log",
                             [mapped_from |-> GetAttr(last_message'.fields, "severity")],
                             "statustext")>>
                 /\ EventsOf(trace', "prearm") = <<>>
                 /\ log' = log
                 /\ uavVars' = uavVars]_vars

\* the pre-arm failure report of system 9, which had no UAV, has reached a
\* new UAV with the text "gyro", while the directory held the UAV of system 7
C26_Witness ==
    /\ last_message.id = received
    /\ last_message.src = 9
    /\ ReportsPreArm(last_message)
    /\ uavs[7] = 1
    /\ uavs[9] = 2
    /\ HasEvent(trace, "create")
    /\ EventsOf(trace, "prearm") = <<Ev("prearm", 2, <<"g", "y", "r", "o">>)>>

\* C27: the system id of the server in a network is the one the network was
\* built with, and 255 when it was built with none.
C27_SystemIdFollowsConfig ==
    server_system_id = (IF spec_system_id = 0 THEN 255 ELSE spec_system_id)

\* a running network that was built with a system id, and one built with none
C27_Witness == running /\ spec_system_id \in {0, 255} /\ server_system_id = 255

\* C28: whenever the handler forwards a batch, the receive channel of every
\* send channel of the list is open, the handler is left by no exception,
\* and every subscriber of the list whose queue has room gets the payload.
C28_NoHalfClosedSubscriber ==
    [][FragmentsStep =>
          /\ \A c \in 1..MaxClients : InChannels(c) => clients[c].pc # "closing"
          /\ sk_step'.raised = ""
          /\ \A c \in 1..MaxClients :
                InChannels(c) /\ ~Full(clients[c]) => clients'[c] # clients[c]
      ]_vars

\* a batch has been forwarded to a subscriber after another one has
\* disconnected and its task has removed its send channel from the list
C28_Witness ==
    /\ sk_step.op = "fragments"
    /\ sk_step.raised = ""
    /\ \E c \in 1..MaxClients : clients[c].pc = "done" /\ ~InChannels(c)
    /\ \E c \in 1..MaxClients :
          InChannels(c) /\ clients[c].pc = "sending" /\ Len(clients[c].queue) = 0

\* the UAV of system s in the directory is assigned to the network and to s
\* and is registered
SetUp(s) ==
    /\ uav_objects[uavs[s]].network_id = NetworkId
    /\ uav_objects[uavs[s]].system_id = s
    /\ \E i \in 1..Len(registry) : registry[i] = uavs[s]

\* C29: every UAV of the directory is assigned to the network and to its
\* system id, and is registered, also after the assignment or the
\* registration of a UAV has failed.
C29_DirectoryEntriesSetUp == \A s \in SystemIds : uavs[s] # 0 => SetUp(s)

\* the first message of system 7 has set up its UAV: it is created, assigned,
\* registered and stored
C29_Witness ==
    /\ last_message.src = 7
    /\ HasEvent(trace, "create")
    /\ uavs[7] # 0
    /\ SetUp(7)

\* the entries of the type of the message m whose callable raises on m
FaultyEntries(m) ==
    {i \in 1..Len(matchers[m.type]) : Raises(matchers[m.type][i], m)}

\* C30: an iteration of the dispatch loop on an autopilot message on which
\* the callable of an entry of its type raises fulfils every other pending
\* entry of the type the message satisfies, calls the handler of the type
\* and leaves the loop consuming.
C30_FaultyPredicateTolerated ==
    [][(DispatchStep /\ last_message'.comp = AUTOPILOT1
        /\ FaultyEntries(last_message') # {}) =>
            /\ loop' = "consuming"
            /\ HasEvent(trace', "handler")
            /\ \A i \in 1..Len(matchers[last_message'.type]) :
                  Matched(matchers[last_message'.type][i], last_message') =>
                      futures'[matchers[last_message'.type][i].future].state
                          = "fulfilled"]_vars

\* C31: a call of get_signal while signals is None raises RuntimeError and
\* changes nothing; while a namespace is loaded it raises nothing and
\* returns a signal of the name asked for that was created in that
\* namespace: the one the namespace already has for the name, unchanged, or
\* else a new one, which is the one later calls get; the signals of the other
\* names are other objects and stay as they are.  load binds a namespace
\* that did not exist before and has no signal; unload leaves signals None.
C31_RegistryLifecycle ==
    [][/\ reg_step'.op = "get" =>
            IF signals.ns = 0
            THEN /\ reg_step'.raised = "RuntimeError"
                 /\ reg_step'.result = 0
                 /\ UNCHANGED <<signals, signal_objects>>
            ELSE /\ reg_step'.raised = ""
                 /\ reg_step'.result \in 1..Len(signal_objects')
                 /\ signal_objects'[reg_step'.result]
                        = [name |-> reg_step'.name, ns |-> signals.ns]
                 /\ signals'.ns = signals.ns
                 /\ signals'.map[reg_step'.name] = reg_step'.result
                 /\ signals.map[reg_step'.name] # 0 =>
                        /\ reg_step'.result = signals.map[reg_step'.name]
                        /\ UNCHANGED <<signals, signal_objects>>
                 /\ signals.map[reg_step'.name] = 0 =>
                        reg_step'.result = Len(signal_objects) + 1
                 /\ \A other \in SignalNames \ {reg_step'.name} :
                        /\ signals'.map[other] = signals.map[other]
                        /\ signals'.map[other] # reg_step'.result
       /\ reg_step'.op = "load" =>
            /\ signals'.ns > namespaces
            /\ \A name \in SignalNames : signals'.map[name] = 0
            /\ \A i \in 1..Len(signal_objects') : signal_objects'[i].ns # signals'.ns
       /\ reg_step'.op = "unload" => signals' = NoNamespace]_vars

\* after an unload and a second load, get_signal("rtk") has returned a
\* signal other than the one it returned for "rtk" under the first load,
\* and other than the one the second namespace has for "show"
C31_Witness ==
    /\ signals.ns = 2
    /\ reg_step = [op |-> "get", name |-> "rtk", result |-> 3, raised |-> ""]
    /\ signal_objects = <<ProtectedSignal("rtk", 1), ProtectedSignal("show", 2),
                          ProtectedSignal("rtk", 2)>>
    /\ signals.map["show"] = 2

====
